---- MODULE Spec2Model ----
(***************************************************************************)
(* Model of the scenario execution engine of expb: the snapshot services   *)
(* (copy / overlay / ZFS), and Executor.execute_scenario with its cleanup. *)
(*                                                                         *)
(* Strings are sequences of tokens, so that string building (f-strings,    *)
(* split, Path joins) is computed and not assumed injective.  A path is a  *)
(* sequence of components, each component a token sequence.                *)
(***************************************************************************)
EXTENDS Integers, Sequences, FiniteSets, TLC

\* ------------------------------------------------------------------ bounds
\* number of distinct file contents a client may write into the snapshot
MaxData == 1
\* number of extra commands a scenario may configure
MaxCommands == 2
\* number of snapshot-service calls made directly in SpecSnap
MaxOps == 4
\* the clock stops after so many seconds
MaxTime == 3
\* the largest `retries' passed to engine_request
MaxRetries == 2
\* the largest json_rpc_wait_max_retries
MaxPollRetries == 2

\* ------------------------------------------------------------- strings/paths
NoPath == <<>>
NoExc == "none"

IsPrefix(p, q) == Len(p) <= Len(q) /\ SubSeq(q, 1, Len(p)) = p

\* pathlib.Path(s): split the token string on "/" into components
RECURSIVE SplitAcc(_, _, _, _)
SplitAcc(s, i, cur, acc) ==
    IF i > Len(s)
    THEN IF cur = <<>> THEN acc ELSE Append(acc, cur)
    ELSE IF s[i] = "/"
         THEN SplitAcc(s, i + 1, <<>>, IF cur = <<>> THEN acc ELSE Append(acc, cur))
         ELSE SplitAcc(s, i + 1, Append(cur, s[i]), acc)

PathOf(s) == SplitAcc(s, 1, <<>>, <<>>)

\* pathlib: base / name
PathJoin(base, s) == base \o PathOf(s)

\* ------------------------------------------------------------- file system
\* fs is a function from the existing paths to a directory or a file's content.
Dir == [kind |-> "dir", data |-> 0]
File(d) == [kind |-> "file", data |-> d]

Exists(fs, p) == p \in DOMAIN fs

Prefixes(p) == { SubSeq(p, 1, k) : k \in 1..Len(p) }

\* Path.mkdir(parents=True, exist_ok=True)
MkdirP(fs, p) ==
    [q \in DOMAIN fs \cup Prefixes(p) |-> IF q \in DOMAIN fs THEN fs[q] ELSE Dir]

\* shutil.rmtree(p)
RmTree(fs, p) == [q \in {r \in DOMAIN fs : ~IsPrefix(p, r)} |-> fs[q]]

Rel(p, q) == SubSeq(q, Len(p) + 1, Len(q))

\* the tree below p, keyed by the path relative to p
Subtree(fs, p) ==
    [s \in {Rel(p, q) : q \in {r \in DOMAIN fs : IsPrefix(p, r) /\ r # p}} |-> fs[p \o s]]

\* the tree `t' placed at dst (with dst and its parents as directories)
Graft(fs, dst, t) ==
    LET base == MkdirP(fs, dst)
        new  == {dst \o s : s \in DOMAIN t}
    IN  [q \in DOMAIN base \cup new |->
            IF q \in new THEN t[Rel(dst, q)] ELSE base[q]]

\* shutil.copytree(src, dst): src is listed, dst is created, the tree is copied
CopyTree(fs, src, dst) == Graft(fs, dst, Subtree(fs, src))

\* upper layer over lower layer (overlayfs merged view; upper wins)
Overlay(lower, upper) ==
    [s \in DOMAIN lower \cup DOMAIN upper |->
        IF s \in DOMAIN upper THEN upper[s] ELSE lower[s]]

\* ------------------------------------------------------------------- world
\* The host: file system, overlay mount table (a stack), ZFS snapshots (read
\* only, name -> tree) and ZFS datasets created by cloning.
SnapSource == <<"/", "snap">>
MissingSource == <<"/", "nosnap">>
ZfsSource == <<"tank", "@", "s1">>
ZfsMissing == <<"tank", "@", "s0">>
WorkPath == <<"/", "work">>

SourceTree == (<< <<"chaindata">> >> :> File(0))

InitWorld ==
    [fs     |-> Graft(<< >>, PathOf(SnapSource), SourceTree),
     mounts |-> << >>,
     zsnaps |-> (ZfsSource :> SourceTree),
     zsets  |-> {}]

Return(w, p) == [w |-> w, exc |-> NoExc, path |-> p]
Raise(w, e) == [w |-> w, exc |-> e, path |-> NoPath]

\* ------------------------------------------------------- shell commands
Mounted(w, mp) == \E i \in 1..Len(w.mounts) : w.mounts[i].mp = mp

TopMount(w, mp) ==
    LET i == CHOOSE k \in 1..Len(w.mounts) :
                /\ w.mounts[k].mp = mp
                /\ \A j \in (k + 1)..Len(w.mounts) : w.mounts[j].mp # mp
    IN  w.mounts[i]

DropTopMount(w, mp) ==
    LET i == CHOOSE k \in 1..Len(w.mounts) :
                /\ w.mounts[k].mp = mp
                /\ \A j \in (k + 1)..Len(w.mounts) : w.mounts[j].mp # mp
    IN  SubSeq(w.mounts, 1, i - 1) \o SubSeq(w.mounts, i + 1, Len(w.mounts))

\* overlayfs refuses layers that contain one another
LayersOverlap(lower, upper, work) ==
    \/ IsPrefix(lower, upper) \/ IsPrefix(upper, lower)
    \/ IsPrefix(lower, work) \/ IsPrefix(work, lower)

\* mount -t overlay <dev> -o lowerdir=..,upperdir=..,workdir=.. <mp>
\* `ok' is the host's answer (privileges, kernel options); exit status 0 or not
MountCmdOk(w, lower, upper, work, mp, ok) ==
    ok /\ Exists(w.fs, lower) /\ Exists(w.fs, upper) /\ Exists(w.fs, work)
       /\ Exists(w.fs, mp) /\ ~LayersOverlap(lower, upper, work)

MountCmd(w, dev, lower, upper, work, mp) ==
    [w EXCEPT !.mounts = Append(@, [dev |-> dev, lower |-> lower, upper |-> upper,
                                    work |-> work, mp |-> mp])]

\* umount <mp>
UmountCmdOk(w, mp, ok) == ok /\ Mounted(w, mp)
UmountCmd(w, mp) == [w EXCEPT !.mounts = DropTopMount(w, mp)]

\* what is seen at path p
View(w, p) ==
    IF Mounted(w, p)
    THEN LET m == TopMount(w, p)
         IN  Overlay(Subtree(w.fs, m.lower), Subtree(w.fs, m.upper))
    ELSE Subtree(w.fs, p)

\* a process writes file f with content d below directory p
WriteAt(w, p, f, d) ==
    LET target == IF Mounted(w, p) THEN TopMount(w, p).upper ELSE p
    IN  [w EXCEPT !.fs = Graft(@, target, (<<f>> :> File(d)))]

\* ZFS mounts dataset d at /d
ZfsMountpoint(d) == PathOf(<<"/">> \o d)

\* zfs list -t snapshot <source>
ZfsListOk(w, source) == source \in DOMAIN w.zsnaps
\* zfs clone <source> <target>
ZfsCloneOk(w, source, target) == source \in DOMAIN w.zsnaps /\ target \notin w.zsets
ZfsClone(w, source, target) ==
    [w EXCEPT !.zsets = @ \cup {target},
              !.fs = Graft(RmTree(@, ZfsMountpoint(target)), ZfsMountpoint(target),
                           w.zsnaps[source])]
\* zfs get -H -o value mountpoint <dataset>
ZfsGetOk(w, d) == d \in w.zsets
\* zfs destroy <dataset>
ZfsDestroyOk(w, d) == d \in w.zsets
ZfsDestroy(w, d) ==
    [w EXCEPT !.zsets = @ \ {d}, !.fs = RmTree(@, ZfsMountpoint(d))]

\* ------------------------------------------------------ snapshot services
\* setup_snapshot_service: the service object built for a scenario
setup_snapshot_service(backend, snapshot_path) ==
    [backend            |-> backend,
     overlay_work_dir   |-> PathJoin(PathOf(WorkPath), <<"work">>),
     overlay_upper_dir  |-> PathJoin(PathOf(WorkPath), <<"upper">>),
     overlay_merged_dir |-> PathJoin(PathOf(WorkPath), <<"merged">>),
     work_dir           |-> IF snapshot_path # NoPath THEN snapshot_path
                            ELSE PathJoin(PathOf(WorkPath), <<"snapshot">>)]

\* CopySnapshotService
Copy_get_snapshot_path(svc, name) == PathJoin(svc.work_dir, name)

Copy_create_snapshot_ReturnsSource(svc, w, name, source) ==
    IF ~Exists(w.fs, PathOf(source)) THEN Raise(w, "ValueError")
    ELSE Return(w, PathOf(source))

Copy_create_snapshot(svc, w, name, source) ==
    LET source_path == PathOf(source)
        dest_path   == Copy_get_snapshot_path(svc, name)
        fs1 == IF Exists(w.fs, dest_path) THEN RmTree(w.fs, dest_path) ELSE w.fs
        fs2 == MkdirP(fs1, svc.work_dir)
    IN  IF ~Exists(w.fs, source_path) THEN Raise(w, "ValueError")
        ELSE IF ~Exists(fs2, source_path)
        THEN Raise([w EXCEPT !.fs = fs2], "FileNotFoundError")
        ELSE Return([w EXCEPT !.fs = CopyTree(fs2, source_path, dest_path)], dest_path)

Copy_get_snapshot(svc, w, name, source) ==
    LET snapshot_path == Copy_get_snapshot_path(svc, name)
    IN  IF ~Exists(w.fs, snapshot_path) THEN Raise(w, "ValueError")
        ELSE Return(w, snapshot_path)

Copy_delete_snapshot(svc, w, name, source) ==
    LET snapshot_path == Copy_get_snapshot_path(svc, name)
    IN  IF Exists(w.fs, snapshot_path)
        THEN Return([w EXCEPT !.fs = RmTree(@, snapshot_path)], NoPath)
        ELSE Return(w, NoPath)

\* OverlaySnapshotService
Overlay_create_snapshot(svc, w, name, source, mountOk) ==
    LET source_path == PathOf(source)
        w1 == [w EXCEPT !.fs = MkdirP(MkdirP(MkdirP(@, svc.overlay_merged_dir),
                                             svc.overlay_upper_dir),
                                      svc.overlay_work_dir)]
    IN  IF ~Exists(w.fs, source_path) THEN Raise(w, "ValueError")
        ELSE IF ~MountCmdOk(w1, source_path, svc.overlay_upper_dir,
                            svc.overlay_work_dir, svc.overlay_merged_dir, mountOk)
        THEN Raise(w1, "CalledProcessError")
        ELSE Return(MountCmd(w1, name, source_path, svc.overlay_upper_dir,
                             svc.overlay_work_dir, svc.overlay_merged_dir),
                    svc.overlay_merged_dir)

Overlay_get_snapshot(svc, w, name, source) ==
    IF ~Exists(w.fs, svc.overlay_merged_dir) THEN Raise(w, "ValueError")
    ELSE Return(w, svc.overlay_merged_dir)

\* rmtree inside try/except: a directory that is still a mount point is busy
TryRmTree(w, p) ==
    IF Exists(w.fs, p) /\ ~Mounted(w, p) THEN [w EXCEPT !.fs = RmTree(@, p)] ELSE w

Overlay_delete_snapshot(svc, w, name, source, umountOk) ==
    LET w1 == IF UmountCmdOk(w, svc.overlay_merged_dir, umountOk)
              THEN UmountCmd(w, svc.overlay_merged_dir) ELSE w
        w2 == TryRmTree(w1, svc.overlay_upper_dir)
        w3 == TryRmTree(w2, svc.overlay_work_dir)
        w4 == TryRmTree(w3, svc.overlay_merged_dir)
    IN  Return(w4, NoPath)

\* ZFSSnapshotService
RECURSIVE TakeUntil(_, _, _)
TakeUntil(s, i, sep) ==
    IF i > Len(s) \/ s[i] = sep THEN << >> ELSE <<s[i]>> \o TakeUntil(s, i + 1, sep)

\* source.split("@")[0]
ZFS_extract_dataset_name(source) == TakeUntil(source, 1, "@")

\* f"{dataset}_{name}"
ZFS_get_dataset_clone_name(dataset, name) == dataset \o <<"_">> \o name

ZFS_get_snapshot(svc, w, name, source) ==
    LET dataset_clone_name ==
            ZFS_get_dataset_clone_name(ZFS_extract_dataset_name(source), name)
        mountpoint_path == ZfsMountpoint(dataset_clone_name)
    IN  IF ~ZfsGetOk(w, dataset_clone_name) THEN Raise(w, "ValueError")
        ELSE IF ~Exists(w.fs, mountpoint_path) THEN Raise(w, "ValueError")
        ELSE Return(w, mountpoint_path)

ZFS_create_snapshot(svc, w, name, source) ==
    LET dataset_clone_name ==
            ZFS_get_dataset_clone_name(ZFS_extract_dataset_name(source), name)
    IN  IF ~ZfsListOk(w, source) THEN Raise(w, "ValueError")
        ELSE IF ~ZfsCloneOk(w, source, dataset_clone_name) THEN Raise(w, "ValueError")
        ELSE ZFS_get_snapshot(svc, ZfsClone(w, source, dataset_clone_name), name, source)

ZFS_delete_snapshot(svc, w, name, source) ==
    LET dataset_clone_name ==
            ZFS_get_dataset_clone_name(ZFS_extract_dataset_name(source), name)
    IN  IF ~ZfsDestroyOk(w, dataset_clone_name) THEN Raise(w, "ValueError")
        ELSE Return(ZfsDestroy(w, dataset_clone_name), NoPath)

\* SnapshotService: dispatch on the configured backend.  `env' is the host's
\* answer to the privileged mount/umount command of the overlay backend.
create_snapshot(svc, w, name, source, env) ==
    CASE svc.backend = "copy"    -> Copy_create_snapshot(svc, w, name, source)
      [] svc.backend = "overlay" -> Overlay_create_snapshot(svc, w, name, source, env)
      [] svc.backend = "zfs"     -> ZFS_create_snapshot(svc, w, name, source)

get_snapshot(svc, w, name, source) ==
    CASE svc.backend = "copy"    -> Copy_get_snapshot(svc, w, name, source)
      [] svc.backend = "overlay" -> Overlay_get_snapshot(svc, w, name, source)
      [] svc.backend = "zfs"     -> ZFS_get_snapshot(svc, w, name, source)

delete_snapshot(svc, w, name, source, env) ==
    CASE svc.backend = "copy"    -> Copy_delete_snapshot(svc, w, name, source)
      [] svc.backend = "overlay" -> Overlay_delete_snapshot(svc, w, name, source, env)
      [] svc.backend = "zfs"     -> ZFS_delete_snapshot(svc, w, name, source)

\* ------------------------------------------------------------------- state
VARIABLES
    world,      \* the host: file system, mounts, ZFS
    scn,        \* scenario definitions: scenario name -> configuration
    opts,       \* top-level options of the scenarios file
    last,       \* the last snapshot-service call and how it ended
    loc,        \* name -> path last returned by create_snapshot/get_snapshot
    accepted,   \* (name, source) pairs create_snapshot has accepted
    nops,       \* number of direct snapshot-service calls so far
    pc,         \* position of the Executor in execute_scenario
    exc,        \* exception raised inside the try block ("none" or the step)
    cexc,       \* exception raised inside cleanup_scenario ("none" or the step)
    outcome,    \* how execute_scenario ended: "none", "returned" or "raised"
    raised,     \* the exception execute_scenario raised to its caller
    trace,      \* steps executed so far, in order
    docker,     \* containers, network and volumes of the docker daemon
    futures,    \* Executor.running_command_futures / executor_pool
    now,        \* int(time.time()), in seconds
    jwtp,       \* the JWTProvider: its cache and its expiration threshold
    th,         \* thread -> its call on the JWTProvider
    mark,       \* one earlier get_jwt call, remembered to compare later calls with
    eng,        \* the frame of engine_request
    poll,       \* the frame of wait_for_client_json_rpc
    cmds,       \* the extra-command pool: its workers and its tasks
    k6run,      \* a load-generation run: its configuration and its iterations
    gen,        \* a Generator and the output directory it writes
    cli,        \* the frame of the execute-scenarios command
    comp        \* the frame of Compressor.start_payloads_compression

snapVars == <<world, last, loc, accepted, nops>>
cfgVars == <<scn, opts>>
execVars == <<pc, exc, cexc, outcome, raised, trace, docker, futures>>
rpcVars == <<now, jwtp, th, mark, eng, poll>>
runVars == <<cmds, k6run>>
toolVars == <<gen, cli, comp>>
vars == <<world, scn, opts, last, loc, accepted, nops,
          pc, exc, cexc, outcome, raised, trace, docker, futures,
          now, jwtp, th, mark, eng, poll, cmds, k6run, gen, cli, comp>>

Backends == {"copy", "overlay", "zfs"}
\* two members of the Client enum
Clients == {"nethermind", "geth"}
ScenarioNames == {<<"a">>, <<"b">>}

\* ExecutorConfig.__init__: f"expb-executor-{self.scenario_name}"
executor_name(scenario_name) == <<"expb-executor-">> \o scenario_name

SourcesFor(backend) ==
    IF backend = "zfs" THEN {ZfsSource, ZfsMissing} ELSE {SnapSource, MissingSource}

\* scenario.snapshot_path: unset, or a directory chosen by the user (here the
\* directory that also holds the source snapshot)
SnapshotPaths(backend) ==
    IF backend = "copy" THEN {NoPath, PathOf(SnapSource)} ELSE {NoPath}

ServiceOf(n) == setup_snapshot_service(scn[n].snapshot_backend, scn[n].snapshot_path)

NoCall == [op |-> "none", name |-> << >>, source |-> << >>, exc |-> NoExc,
           path |-> NoPath, stale |-> FALSE, env |-> TRUE]

\* Is there a snapshot (directory, mount or dataset) for `name' on the host?
SnapshotExists(svc, w, name, source) ==
    CASE svc.backend = "copy" -> Exists(w.fs, Copy_get_snapshot_path(svc, name))
      [] svc.backend = "overlay" ->
            \/ Mounted(w, svc.overlay_merged_dir)
            \/ Exists(w.fs, svc.overlay_upper_dir)
            \/ Exists(w.fs, svc.overlay_work_dir)
            \/ Exists(w.fs, svc.overlay_merged_dir)
      [] svc.backend = "zfs" ->
            ZFS_get_dataset_clone_name(ZFS_extract_dataset_name(source), name) \in w.zsets

\* the content of the source snapshot
SourceContent(backend, w, source) ==
    IF backend = "zfs"
    THEN IF source \in DOMAIN w.zsnaps THEN w.zsnaps[source] ELSE << >>
    ELSE Subtree(w.fs, PathOf(source))

ExecIdle ==
    /\ pc = "idle" /\ exc = NoExc /\ cexc = NoExc /\ outcome = "none"
    /\ raised = NoExc /\ trace = << >>
    /\ docker = [k6 |-> "absent", ec |-> "absent", alloy |-> "absent",
                 network |-> FALSE, volumes |-> FALSE, ec_data |-> NoPath,
                 k6_logs |-> FALSE, ec_logs |-> FALSE, ec_env |-> "none"]
    /\ futures = [pool |-> FALSE, running |-> 0]

\* ------------------------------------------------------------ JWT provider
NoToken == << >>
\* JWTProvider.__init__(expiration_threshold_seconds: int = 10)
expiration_threshold_seconds == 10
\* bytes.fromhex(jwt_secret_file.read_text().strip())
JwtSecret == <<"secret">>
JwtHeader == [typ |-> "JWT", alg |-> "HS256"]

\* base64url without padding, and HMAC-SHA256: both kept symbolic, so that two
\* values are equal exactly when they were computed from equal arguments
base64url_encode(data) == <<"b64", data>>
hmac_sha256(key, msg) == <<"hmac", key, msg>>

\* header.payload.signature for the claims {"iat": iat, "exp": exp}
Token(secret, iat, exp) ==
    LET header_b64 == base64url_encode(JwtHeader)
        payload_b64 == base64url_encode([iat |-> iat, exp |-> exp])
        message == <<header_b64, payload_b64>>
    IN  <<header_b64, payload_b64, base64url_encode(hmac_sha256(secret, message))>>

EmptyCache == [token |-> NoToken, exp |-> 0]

\* lock is the thread that holds _cache_lock, 0 when the lock is free
JWTProvider(threshold) ==
    [jwt_secret_bytes |-> JwtSecret, cache |-> EmptyCache, threshold |-> threshold,
     lock |-> 0]

\* `with self._cache_lock:' on entry, by thread i, and on exit
cache_lock_enter(p, i) == [p EXCEPT !.lock = i]

cache_lock_exit_Kept(p) == p

cache_lock_exit(p) == [p EXCEPT !.lock = 0]

\* the test both locked sections of get_jwt make, with the caller's `now'
CacheValid_Reversed(p, t) ==
    p.cache.token # NoToken /\ t > (p.cache.exp - p.threshold)

CacheValid(p, t) ==
    p.cache.token # NoToken /\ t < (p.cache.exp - p.threshold)

\* the second locked section without its check
StoreToken_Unchecked(p, t, token, exp) ==
    [p EXCEPT !.cache = [token |-> token, exp |-> exp]]

\* the second locked section: the cache is replaced unless it is valid
StoreToken(p, t, token, exp) ==
    IF ~CacheValid(p, t) THEN [p EXCEPT !.cache = [token |-> token, exp |-> exp]]
    ELSE p

\* get_jwt run by one thread with no other thread in between
get_jwt(p, t, expiration_seconds) ==
    IF CacheValid(p, t)
    THEN [token |-> p.cache.token, p |-> p, generated |-> FALSE]
    ELSE LET iat == t
             exp == iat + expiration_seconds
             token == Token(p.jwt_secret_bytes, iat, exp)
         IN  [token |-> token, p |-> StoreToken(p, t, token, exp), generated |-> TRUE]

\* the attributes a JWTProvider object has that can be called
JWTProviderMethods == {"get_jwt", "_base64url_encode"}

\* jwt_provider.<name>(): AttributeError when the object has no such attribute
MethodLookup(name) == IF name \in JWTProviderMethods THEN NoExc ELSE "AttributeError"

\* the threads that share one JWTProvider
Threads == {1, 2}
NoMark == [t |-> 0, E |-> 0, token |-> NoToken, stored |-> FALSE, set |-> FALSE]
ThIdle == [pc |-> "idle", op |-> "none", t |-> 0, E |-> 0, token |-> NoToken,
           exc |-> NoExc, later |-> FALSE, cache |-> EmptyCache]

\* ---------------------------------------------------------- engine_request
NoRpcExc == [type |-> "none", error |-> "", status_code |-> 0]
RPCError(error, status_code) ==
    [type |-> "RPCError", error |-> error, status_code |-> status_code]

EngIdle == [pc |-> "idle", retries |-> 0, expiration_seconds |-> 0,
            E0 |-> 0, R0 |-> 0, posts |-> << >>, invalidated |-> 0,
            result |-> "", exc |-> NoRpcExc]

\* ------------------------------------------------ wait_for_client_json_rpc
PollIdle == [pc |-> "idle", N |-> 0, total |-> 0, posts |-> << >>, exc |-> NoExc]

\* ----------------------------------------------------- extra-command pool
\* no pool: Executor.executor_pool is None, running_command_futures is empty
CmdIdle == [pc |-> "idle", commands |-> 0, hang |-> {}, pool |-> FALSE,
            max_workers |-> 0, threads |-> 0, idle |-> 0, task |-> << >>,
            futures |-> 0, at_stop |-> << >>,
            errors |-> {}, at_k6 |-> << >>]

\* ------------------------------------------------------ load-generation run
\* Python's None; an optional value that is given is a one-element sequence,
\* a string is its sequence of tokens
None == << >>
NoScenario == [executor |-> "none"]
VuIdle == [phase |-> "idle", i |-> 0, idx |-> 0]
K6Idle == [pc |-> "idle", caller |-> "none", iterations |-> 0,
           duration |-> None, rate |-> None, scenario |-> NoScenario,
           payloadLines |-> << >>, fcuLines |-> << >>, startLine |-> 1,
           env |-> << >>, t |-> 0, slot |-> 0, iter |-> 0,
           vu |-> << >>, sel |-> << >>, nonvalid |-> 0, failed_checks |-> 0,
           logged |-> 0, aborted |-> "none", timedout |-> FALSE]

\* ------------------------------------------------------- command-line tools
GenIdle == [pc |-> "idle", start_block |-> 0, end_block |-> 0, join_payloads |-> FALSE,
            threads |-> 0, task |-> << >>, finished |-> << >>, before |-> {},
            dir |-> << >>, payloads_jsonl |-> << >>, fcus_jsonl |-> << >>,
            exc |-> NoExc]
CliIdle == [pc |-> "idle", loop |-> FALSE, filter |-> << >>, scenarios |-> << >>,
            filtered_scenarios |-> << >>, k |-> 0, iteration |-> 0, passes |-> 0,
            executed |-> << >>, executors |-> 0, exc |-> NoExc]
CompIdle == [pc |-> "idle", compression_factor |-> 0, input |-> << >>, line |-> 0,
             payloads_to_compress |-> << >>, prev_method |-> "",
             batches |-> << >>, exc |-> NoExc]

RunIdle ==
    /\ cmds = CmdIdle /\ k6run = K6Idle
    /\ gen = GenIdle /\ cli = CliIdle /\ comp = CompIdle

RpcIdle ==
    /\ now = 0
    /\ jwtp = JWTProvider(expiration_threshold_seconds)
    /\ th = [i \in Threads |-> ThIdle]
    /\ mark = NoMark
    /\ eng = EngIdle
    /\ poll = PollIdle
    /\ RunIdle

\* ------------------------------------------------- snapshot service, direct
InitSnap ==
    /\ world = InitWorld
    /\ \E b \in Backends :
         scn \in [ScenarioNames -> [snapshot_backend : {b},
                                    snapshot_path : SnapshotPaths(b),
                                    snapshot_source : {CHOOSE x \in SourcesFor(b) : TRUE},
                                    extra_commands : {0},
                                    client : {"nethermind"}]]
    /\ opts = [pull_images |-> FALSE, exports |-> "none", limit_bandwidth |-> FALSE]
    /\ last = NoCall /\ loc = [n \in ScenarioNames |-> NoPath]
    /\ accepted = {} /\ nops = 0
    /\ ExecIdle
    /\ RpcIdle

Called(op, n, source, r, env) ==
    [op |-> op, name |-> n, source |-> source, exc |-> r.exc, path |-> r.path,
     stale |-> SnapshotExists(ServiceOf(n), world, executor_name(n), source),
     env |-> env]

SnapCreate(n, source, env) ==
    LET r == create_snapshot(ServiceOf(n), world, executor_name(n), source, env)
    IN  /\ nops < MaxOps
        /\ world' = r.w
        /\ last' = Called("create", n, source, r, env)
        /\ loc' = IF r.exc = NoExc THEN [loc EXCEPT ![n] = r.path] ELSE loc
        /\ accepted' = IF r.exc = NoExc THEN accepted \cup {<<n, source>>} ELSE accepted
        /\ nops' = nops + 1
        /\ UNCHANGED <<cfgVars, runVars, toolVars, rpcVars, execVars>>

SnapGet(n, source) ==
    LET r == get_snapshot(ServiceOf(n), world, executor_name(n), source)
    IN  /\ nops < MaxOps
        /\ world' = r.w
        /\ last' = Called("get", n, source, r, TRUE)
        /\ loc' = IF r.exc = NoExc THEN [loc EXCEPT ![n] = r.path] ELSE loc
        /\ nops' = nops + 1
        /\ UNCHANGED <<accepted, cfgVars, runVars, toolVars, rpcVars, execVars>>

SnapDelete(n, source, env) ==
    LET r == delete_snapshot(ServiceOf(n), world, executor_name(n), source, env)
    IN  /\ nops < MaxOps
        /\ world' = r.w
        /\ last' = Called("delete", n, source, r, env)
        /\ loc' = IF r.exc = NoExc THEN [loc EXCEPT ![n] = NoPath] ELSE loc
        /\ nops' = nops + 1
        /\ UNCHANGED <<accepted, cfgVars, runVars, toolVars, rpcVars, execVars>>

\* the execution client of scenario n writes below the path it was given
SnapWrite(n, d) ==
    /\ loc[n] # NoPath
    /\ Exists(world.fs, loc[n])
    /\ world' = WriteAt(world, loc[n], <<"state">>, d)
    /\ last' = [NoCall EXCEPT !.op = "write", !.name = n, !.path = loc[n]]
    /\ UNCHANGED <<loc, accepted, nops, cfgVars, runVars, toolVars, rpcVars, execVars>>

NextSnap ==
    \/ \E n \in ScenarioNames, env \in BOOLEAN :
         \E source \in SourcesFor(scn[n].snapshot_backend) : SnapCreate(n, source, env)
    \/ \E n \in ScenarioNames :
         \E source \in SourcesFor(scn[n].snapshot_backend) : SnapGet(n, source)
    \/ \E n \in ScenarioNames, env \in BOOLEAN :
         \E source \in SourcesFor(scn[n].snapshot_backend) : SnapDelete(n, source, env)
    \/ \E n \in ScenarioNames, d \in 1..MaxData : SnapWrite(n, d)

SpecSnap == InitSnap /\ [][NextSnap]_vars

\* ---------------------------------------------------- Executor: the try block
TheScenario == <<"a">>
Name == executor_name(TheScenario)
Svc == ServiceOf(TheScenario)
Source == scn[TheScenario].snapshot_source

\* the load generator started before the readiness poll and the extra commands
SetupOrder_K6BeforeReady ==
    << "clean_system_cache", "prepare_directories", "prepare_jwt_secret_file",
       "pull_docker_images", "networks_create", "prepare_alloy_config",
       "start_alloy", "get_alloy_pyroscope_url", "start_execution_client",
       "limit_container_bandwidth", "prepare_k6_script",
       "get_execution_client_engine_url", "run_k6",
       "get_execution_client_rpc_url", "wait_for_client_json_rpc",
       "start_extra_commands" >>

\* the calls of execute_scenario's try block, in program order
SetupOrder ==
    << "clean_system_cache", "prepare_directories", "prepare_jwt_secret_file",
       "pull_docker_images", "networks_create", "prepare_alloy_config",
       "start_alloy", "get_alloy_pyroscope_url", "start_execution_client",
       "limit_container_bandwidth", "get_execution_client_rpc_url",
       "wait_for_client_json_rpc", "start_extra_commands", "prepare_k6_script",
       "get_execution_client_engine_url", "run_k6" >>

\* the conditions under which execute_scenario makes each call
StepConfigured(step) ==
    CASE step = "pull_docker_images"        -> opts.pull_images
      [] step = "prepare_alloy_config"      -> opts.exports # "none"
      [] step = "start_alloy"               -> opts.exports # "none"
      [] step = "get_alloy_pyroscope_url"   -> opts.exports = "pyroscope"
      [] step = "limit_container_bandwidth" -> opts.limit_bandwidth
      [] OTHER -> TRUE

IndexOf(step) == CHOOSE i \in 1..Len(SetupOrder) : SetupOrder[i] = step

\* `finally:' -- where control goes when the try block is left
FinallyEntry == "cleanup_scenario"

\* the statement executed after `step' returned normally
NextSetup(step) ==
    LET later == {j \in (IndexOf(step) + 1)..Len(SetupOrder) : StepConfigured(SetupOrder[j])}
    IN  IF later = {} THEN FinallyEntry
        ELSE SetupOrder[CHOOSE j \in later : \A k \in later : j <= k]

\* `except Exception as e: ... raise e' inside try/finally
ReRaiseTarget_NoFinally == "end"
ReRaiseTarget == FinallyEntry

Did(step) == trace' = Append(trace, step)

SetupOk(step) ==
    /\ pc' = NextSetup(step)
    /\ Did(step)
    /\ UNCHANGED <<exc, cexc, outcome, raised>>

SetupFail_Continues(step) ==
    /\ pc' = NextSetup(step)
    /\ exc' = step
    /\ Did(step)
    /\ UNCHANGED <<cexc, outcome, raised>>

SetupFail(step) ==
    /\ pc' = "except"
    /\ exc' = step
    /\ Did(step)
    /\ UNCHANGED <<cexc, outcome, raised>>

\* a call that touches nothing the model tracks: it returns or it raises
PlainStep(step) ==
    /\ pc = step
    /\ \/ SetupOk(step)
       \/ SetupFail(step)
    /\ UNCHANGED <<snapVars, cfgVars, runVars, toolVars, rpcVars, docker, futures>>

ExecuteScenario ==
    /\ pc = "idle"
    /\ pc' = "clean_system_cache"
    /\ UNCHANGED <<snapVars, cfgVars, runVars, toolVars, rpcVars, exc, cexc, outcome, raised, trace, docker, futures>>

CleanSystemCache == PlainStep("clean_system_cache")

PrepareDirectories ==
    /\ pc = "prepare_directories"
    /\ \E env \in BOOLEAN :
         LET r == create_snapshot(Svc, world, Name, Source, env)
         IN  /\ world' = r.w
             /\ last' = Called("create", TheScenario, Source, r, env)
             /\ loc' = IF r.exc = NoExc THEN [loc EXCEPT ![TheScenario] = r.path] ELSE loc
             /\ accepted' = IF r.exc = NoExc THEN accepted \cup {<<TheScenario, Source>>}
                            ELSE accepted
             /\ IF r.exc = NoExc THEN SetupOk("prepare_directories")
                ELSE SetupFail("prepare_directories")
    /\ UNCHANGED <<nops, cfgVars, runVars, toolVars, rpcVars, docker, futures>>

JwtSecretDir == PathJoin(PathOf(WorkPath), <<"jwt-secret">>)
JwtSecretFile == <<"jwtsecret.hex">>

\* ExecutorConfig.outputs_dir: paths.outputs / f"{executor_name}-{timestamp}"
OutputsPath == <<"/", "outputs">>
outputs_dir == PathJoin(PathOf(OutputsPath), Name \o <<"-", "timestamp">>)

\* secrets.token_bytes(32).hex(): a value that no other file holds
TokenBytes == {-1}

PrepareJwtSecretFile ==
    /\ pc = "prepare_jwt_secret_file"
    /\ \/ /\ \E secret \in TokenBytes :
               world' = WriteAt([world EXCEPT !.fs = MkdirP(@, JwtSecretDir)],
                                JwtSecretDir, JwtSecretFile, secret)
          /\ SetupOk("prepare_jwt_secret_file")
       \/ /\ UNCHANGED world
          /\ SetupFail("prepare_jwt_secret_file")
    /\ UNCHANGED <<last, loc, accepted, nops, cfgVars, runVars, toolVars, rpcVars, docker, futures>>

PullDockerImages == PlainStep("pull_docker_images")

NetworksCreate ==
    /\ pc = "networks_create"
    /\ \/ /\ docker' = [docker EXCEPT !.network = TRUE]
          /\ SetupOk("networks_create")
       \/ /\ UNCHANGED docker
          /\ SetupFail("networks_create")
    /\ UNCHANGED <<snapVars, cfgVars, runVars, toolVars, rpcVars, futures>>

PrepareAlloyConfig == PlainStep("prepare_alloy_config")

\* containers.run(detach=True): the container is created, then started
StartAlloy ==
    /\ pc = "start_alloy"
    /\ \/ /\ docker' = [docker EXCEPT !.alloy = "running"]
          /\ SetupOk("start_alloy")
       \/ /\ \E st \in {"absent", "created"} : docker' = [docker EXCEPT !.alloy = st]
          /\ SetupFail("start_alloy")
    /\ UNCHANGED <<snapVars, cfgVars, runVars, toolVars, rpcVars, futures>>

GetAlloyPyroscopeUrl == PlainStep("get_alloy_pyroscope_url")

\* execute_scenario: Pyroscope(endpoint=get_alloy_pyroscope_url(...)) when a
\* pyroscope export is configured, None otherwise
alloy_pyroscope ==
    IF "get_alloy_pyroscope_url" \in {trace[i] : i \in DOMAIN trace} THEN "alloy" ELSE "none"

\* the pyroscope address is put into the environment of every client
add_pyroscope_config_AnyClient(client, pyroscope) == pyroscope

\* add_pyroscope_config: the PYROSCOPE_* variables are set for Nethermind only
add_pyroscope_config(client, pyroscope) ==
    IF client = "nethermind" THEN pyroscope ELSE "none"

\* the environment start_execution_client gives the container
ClientEnvironment ==
    IF alloy_pyroscope # "none"
    THEN add_pyroscope_config(scn[TheScenario].client, alloy_pyroscope)
    ELSE "none"

\* start_execution_client: get_execution_client_volumes (which asks the
\* snapshot service for the snapshot path), volumes.create, containers.run
StartExecutionClient ==
    /\ pc = "start_execution_client"
    /\ LET r == get_snapshot(Svc, world, Name, Source)
       IN  IF r.exc # NoExc
           THEN /\ UNCHANGED docker
                /\ SetupFail("start_execution_client")
           ELSE \/ /\ docker' = [docker EXCEPT !.ec = "running", !.volumes = TRUE,
                                               !.ec_data = r.path,
                                               !.ec_env = ClientEnvironment]
                   /\ SetupOk("start_execution_client")
                \/ /\ \E st \in {"absent", "created"}, v \in BOOLEAN :
                        /\ st = "created" => v
                        /\ docker' = [docker EXCEPT !.ec = st, !.volumes = v,
                                                    !.ec_data = IF st = "absent" THEN NoPath
                                                                ELSE r.path,
                                                    !.ec_env = IF st = "absent" THEN "none"
                                                               ELSE ClientEnvironment]
                   /\ SetupFail("start_execution_client")
    /\ UNCHANGED <<snapVars, cfgVars, runVars, toolVars, rpcVars, futures>>

LimitContainerBandwidth == PlainStep("limit_container_bandwidth")

GetExecutionClientRpcUrl == PlainStep("get_execution_client_rpc_url")

WaitForClientJsonRpc == PlainStep("wait_for_client_json_rpc")

\* start_extra_commands: nothing without commands; else a pool with one worker
\* per command and one future per command
StartExtraCommands ==
    /\ pc = "start_extra_commands"
    /\ futures' = IF scn[TheScenario].extra_commands = 0 THEN futures
                  ELSE [pool |-> TRUE, running |-> scn[TheScenario].extra_commands]
    /\ SetupOk("start_extra_commands")
    /\ UNCHANGED <<snapVars, cfgVars, runVars, toolVars, rpcVars, docker>>

PrepareK6Script == PlainStep("prepare_k6_script")

GetExecutionClientEngineUrl == PlainStep("get_execution_client_engine_url")

\* run_k6: containers.run(detach=False) returns when the container has exited
\* (restart policy unless-stopped may have started it again by then)
RunK6 ==
    /\ pc = "run_k6"
    /\ \/ /\ \E st \in {"running", "exited"} : docker' = [docker EXCEPT !.k6 = st]
          /\ SetupOk("run_k6")
       \/ /\ \E st \in {"absent", "created", "exited"} : docker' = [docker EXCEPT !.k6 = st]
          /\ SetupFail("run_k6")
    /\ UNCHANGED <<snapVars, cfgVars, runVars, toolVars, rpcVars, futures>>

\* except Exception as e: log; raise e
ExceptHandler ==
    /\ pc = "except"
    /\ pc' = ReRaiseTarget
    /\ UNCHANGED <<snapVars, cfgVars, runVars, toolVars, rpcVars, exc, cexc, outcome, raised, trace, docker, futures>>

\* the running execution client writes into its data directory
ClientWrite(d) ==
    /\ docker.ec = "running"
    /\ Exists(world.fs, docker.ec_data)
    /\ world' = WriteAt(world, docker.ec_data, <<"state">>, d)
    /\ last' = [NoCall EXCEPT !.op = "write", !.name = TheScenario, !.path = docker.ec_data]
    /\ UNCHANGED <<loc, accepted, nops, cfgVars, runVars, toolVars, rpcVars, execVars>>

\* ------------------------------------------------ Executor: cleanup_scenario
\* an exception leaves cleanup_scenario (nothing in it catches it)
CleanupRaise(step) ==
    /\ pc' = "end"
    /\ cexc' = step
    /\ Did(step)
    /\ UNCHANGED <<exc, outcome, raised>>

CleanupGo(step, next) ==
    /\ pc' = next
    /\ Did(step)
    /\ UNCHANGED <<exc, cexc, outcome, raised>>

\* stop_extra_commands
stop_extra_commands(f) ==
    IF f.running = 0 THEN f ELSE [pool |-> FALSE, running |-> 0]

CleanupScenario_NoStop ==
    /\ pc = "cleanup_scenario"
    /\ pc' = "k6_get"
    /\ trace' = Append(trace, "cleanup_scenario")
    /\ UNCHANGED <<snapVars, cfgVars, runVars, toolVars, rpcVars, exc, cexc, outcome, raised, docker, futures>>

CleanupScenario ==
    /\ pc = "cleanup_scenario"
    /\ futures' = stop_extra_commands(futures)
    /\ pc' = "k6_get"
    /\ trace' = trace \o <<"cleanup_scenario", "stop_extra_commands">>
    /\ UNCHANGED <<snapVars, cfgVars, runVars, toolVars, rpcVars, exc, cexc, outcome, raised, docker>>

\* docker.errors.NotFound is not caught
ContainerGet_NotFoundRaises(step, c, next, skip) ==
    /\ pc = step
    /\ \/ docker[c] # "absent" /\ CleanupGo(step, next)
       \/ CleanupRaise(step)
    /\ UNCHANGED <<snapVars, cfgVars, runVars, toolVars, rpcVars, docker, futures>>

\* docker_client.containers.get(name) inside try/except NotFound
ContainerGet(step, c, next, skip) ==
    /\ pc = step
    /\ IF docker[c] = "absent"
       THEN CleanupGo(step, skip)
       ELSE \/ CleanupGo(step, next)
            \/ CleanupRaise(step)
    /\ UNCHANGED <<snapVars, cfgVars, runVars, toolVars, rpcVars, docker, futures>>

\* a docker call on a container object: it succeeds or raises APIError
ContainerCall(step, next, newDocker) ==
    /\ pc = step
    /\ \/ /\ docker' = newDocker
          /\ CleanupGo(step, next)
       \/ /\ UNCHANGED docker
          /\ CleanupRaise(step)
    /\ UNCHANGED <<snapVars, cfgVars, runVars, toolVars, rpcVars, futures>>

K6Get == ContainerGet("k6_get", "k6", "k6_stop", "ec_get")
\* the stopped container is removed at once
K6Stop_ThenRemove ==
    ContainerCall("k6_stop", "k6_remove", [docker EXCEPT !.k6 = "exited"])

K6Stop == ContainerCall("k6_stop", "k6_logs", [docker EXCEPT !.k6 = "exited"])
K6Logs == ContainerCall("k6_logs", "k6_remove", [docker EXCEPT !.k6_logs = TRUE])
K6Remove == ContainerCall("k6_remove", "ec_get", [docker EXCEPT !.k6 = "absent"])

EcGet == ContainerGet("ec_get", "ec", "ec_reload", "alloy_get")
EcReload == ContainerCall("ec_reload", "ec_stop", docker)
EcStop == ContainerCall("ec_stop", "ec_logs", [docker EXCEPT !.ec = "exited"])
EcLogs == ContainerCall("ec_logs", "ec_remove", [docker EXCEPT !.ec_logs = TRUE])
EcRemove == ContainerCall("ec_remove", "ec_volumes", [docker EXCEPT !.ec = "absent"])
EcVolumes == ContainerCall("ec_volumes", "alloy_get", [docker EXCEPT !.volumes = FALSE])

AlloyGet == ContainerGet("alloy_get", "alloy", "alloy_stop", "net_get")
AlloyStop == ContainerCall("alloy_stop", "alloy_remove", [docker EXCEPT !.alloy = "exited"])
AlloyRemove == ContainerCall("alloy_remove", "net_get", [docker EXCEPT !.alloy = "absent"])

NetGet ==
    /\ pc = "net_get"
    /\ IF ~docker.network
       THEN CleanupGo("net_get", "remove_directories")
       ELSE \/ CleanupGo("net_get", "net_remove")
            \/ CleanupRaise("net_get")
    /\ UNCHANGED <<snapVars, cfgVars, runVars, toolVars, rpcVars, docker, futures>>

NetRemove ==
    ContainerCall("net_remove", "remove_directories", [docker EXCEPT !.network = FALSE])

\* remove_directories: delete_snapshot; on an exception log it and `raise e'
RemoveDirectories ==
    /\ pc = "remove_directories"
    /\ \E env \in BOOLEAN :
         LET r == delete_snapshot(Svc, world, Name, Source, env)
         IN  /\ world' = r.w
             /\ last' = Called("delete", TheScenario, Source, r, env)
             /\ loc' = IF r.exc = NoExc THEN [loc EXCEPT ![TheScenario] = NoPath] ELSE loc
             /\ IF r.exc = NoExc THEN CleanupGo("remove_directories", "end")
                ELSE CleanupRaise("remove_directories")
    /\ UNCHANGED <<accepted, nops, cfgVars, runVars, toolVars, rpcVars, docker, futures>>

\* execute_scenario is left: an exception raised in the finally block replaces
\* the one being re-raised; otherwise the pending one propagates
Finish ==
    /\ pc = "end"
    /\ pc' = "done"
    /\ raised' = IF cexc # NoExc THEN cexc ELSE exc
    /\ outcome' = IF cexc # NoExc \/ exc # NoExc THEN "raised" ELSE "returned"
    /\ UNCHANGED <<snapVars, cfgVars, runVars, toolVars, rpcVars, exc, cexc, trace, docker, futures>>

Init ==
    /\ world = InitWorld
    /\ \E b \in Backends, nc \in 0..MaxCommands, c \in Clients :
        \E sp \in SnapshotPaths(b), src \in SourcesFor(b) :
           scn = [n \in ScenarioNames |->
                     [snapshot_backend |-> b, snapshot_path |-> sp,
                      snapshot_source |-> src, extra_commands |-> nc,
                      client |-> c]]
    /\ opts \in [pull_images : BOOLEAN, exports : {"none", "prometheus_rw", "pyroscope"},
                 limit_bandwidth : BOOLEAN]
    /\ last = NoCall /\ loc = [n \in ScenarioNames |-> NoPath]
    /\ accepted = {} /\ nops = 0
    /\ ExecIdle
    /\ RpcIdle

Next ==
    \/ ExecuteScenario
    \/ CleanSystemCache
    \/ PrepareDirectories
    \/ PrepareJwtSecretFile
    \/ PullDockerImages
    \/ NetworksCreate
    \/ PrepareAlloyConfig
    \/ StartAlloy
    \/ GetAlloyPyroscopeUrl
    \/ StartExecutionClient
    \/ LimitContainerBandwidth
    \/ GetExecutionClientRpcUrl
    \/ WaitForClientJsonRpc
    \/ StartExtraCommands
    \/ PrepareK6Script
    \/ GetExecutionClientEngineUrl
    \/ RunK6
    \/ ExceptHandler
    \/ \E d \in 1..MaxData : ClientWrite(d)
    \/ CleanupScenario
    \/ K6Get \/ K6Stop \/ K6Logs \/ K6Remove
    \/ EcGet \/ EcReload \/ EcStop \/ EcLogs \/ EcRemove \/ EcVolumes
    \/ AlloyGet \/ AlloyStop \/ AlloyRemove
    \/ NetGet \/ NetRemove
    \/ RemoveDirectories
    \/ Finish

Spec == Init /\ [][Next]_vars

\* ------------------------------------------------------- claims: Executor
Range(q) == {q[i] : i \in DOMAIN q}
CountOf(x) == Cardinality({i \in DOMAIN trace : trace[i] = x})
\* the place of x in the trace (0 when x was not executed)
Pos(x) == IF x \in Range(trace) THEN CHOOSE i \in DOMAIN trace : trace[i] = x ELSE 0
NoStepTwice == Cardinality(Range(trace)) = Len(trace)
IsSetupStep(x) == x \in Range(SetupOrder)
SetupTrace == SelectSeq(trace, IsSetupStep)
Finished == pc = "done"

\* C1: on every run, with or without a failing step, cleanup_scenario is
\* entered exactly once, after the last executed setup/run step and before
\* execute_scenario returns or raises.
C1_CleanupEnteredExactlyOnce ==
    /\ CountOf("cleanup_scenario") <= 1
    /\ (pc \in {"end", "done"} \/ outcome # "none") => CountOf("cleanup_scenario") = 1
    /\ \A j \in DOMAIN trace :
         (IsSetupStep(trace[j]) /\ Pos("cleanup_scenario") # 0)
            => j < Pos("cleanup_scenario")

C1_Witness_FailedRunCleanedUp ==
    /\ Finished /\ exc = "wait_for_client_json_rpc"
    /\ CountOf("cleanup_scenario") = 1

\* the six steps of cleanup_scenario, named by their first call
CleanupSections ==
    {"stop_extra_commands", "k6_get", "ec_get", "alloy_get", "net_get",
     "remove_directories"}
IsCleanupSection(x) == x \in CleanupSections
CleanupTrace == SelectSeq(trace, IsCleanupSection)

\* C2: whatever cleanup step fails, and however it fails, all the cleanup
\* steps after it are still attempted.
C2_AllCleanupStepsAttempted ==
    Finished => CleanupSections \subseteq Range(trace)

\* C3: cleanup_scenario never propagates an exception to its caller.
C3_CleanupNeverRaises ==
    pc \in {"end", "done"} => cexc = NoExc

\* a was executed before b, when both were (no step is executed twice)
Precedes(a, b) == (Pos(a) # 0 /\ Pos(b) # 0) => Pos(a) < Pos(b)

\* C4 as stated: load generator, execution client, extra-command runner,
\* telemetry sidecar, network, snapshot.
C4_CleanupOrderAsStated ==
    /\ NoStepTwice
    /\ Precedes("k6_get", "ec_get")
    /\ Precedes("ec_get", "stop_extra_commands")
    /\ Precedes("stop_extra_commands", "alloy_get")
    /\ Precedes("alloy_get", "net_get")
    /\ Precedes("net_get", "remove_directories")

\* C4 amended: the extra-command runner is stopped first; then load
\* generator, execution client, telemetry sidecar, network, snapshot.  The
\* steps attempted are always an initial part of that list, and the whole list
\* when cleanup_scenario returns.
CodeCleanupOrder ==
    << "stop_extra_commands", "k6_get", "ec_get", "alloy_get", "net_get",
       "remove_directories" >>

C4_CleanupOrderExtraCommandsFirst ==
    /\ NoStepTwice
    /\ IsPrefix(CleanupTrace, CodeCleanupOrder)
    /\ (pc \in {"end", "done"} /\ cexc = NoExc) => CleanupTrace = CodeCleanupOrder
    /\ Precedes("k6_stop", "k6_remove") /\ Precedes("k6_remove", "ec_get")
    /\ Precedes("ec_stop", "ec_remove") /\ Precedes("ec_remove", "ec_volumes")
    /\ Precedes("ec_volumes", "alloy_get")
    /\ Precedes("alloy_stop", "alloy_remove") /\ Precedes("alloy_remove", "net_get")
    /\ Precedes("net_remove", "remove_directories")

C4_Witness_FullCleanup ==
    /\ Finished /\ cexc = NoExc
    /\ {"k6_remove", "ec_volumes", "alloy_remove", "net_remove"} \subseteq Range(trace)
    /\ scn[TheScenario].extra_commands > 0

\* C5: when a setup or run step fails with error e, execute_scenario ends by
\* raising e, after cleanup; it does not return and raises nothing else.
C5_OriginalErrorReachesCaller ==
    (Finished /\ exc # NoExc) => (outcome = "raised" /\ raised = exc)

\* C6: the steps run only in the order preparation (snapshot, JWT secret,
\* images) -> network -> telemetry sidecar (only with exports) -> client start
\* -> bandwidth limiting (only when enabled) -> readiness poll -> extra
\* commands (only when configured) -> load generator; a step runs only after
\* every earlier step that applies has succeeded, and nothing runs after a
\* failure.
StatedOrder ==
    << "prepare_directories", "prepare_jwt_secret_file", "pull_docker_images",
       "networks_create", "start_alloy", "start_execution_client",
       "limit_container_bandwidth", "wait_for_client_json_rpc",
       "start_extra_commands", "run_k6" >>

Applies(step) ==
    CASE step = "pull_docker_images"        -> opts.pull_images
      [] step = "start_alloy"               -> opts.exports # "none"
      [] step = "limit_container_bandwidth" -> opts.limit_bandwidth
      [] OTHER -> TRUE

IsStatedStep(x) == x \in Range(StatedOrder)
StatedTrace == SelectSeq(trace, IsStatedStep)

C6_StepsInStatedOrder ==
    /\ IsPrefix(StatedTrace, SelectSeq(StatedOrder, Applies))
    /\ exc # NoExc => (SetupTrace # << >> /\ SetupTrace[Len(SetupTrace)] = exc)
    /\ (exc = NoExc /\ CountOf("cleanup_scenario") = 1)
          => StatedTrace = SelectSeq(StatedOrder, Applies)
    /\ futures.pool => (scn[TheScenario].extra_commands > 0
                        /\ "wait_for_client_json_rpc" \in Range(trace))
    /\ docker.k6 # "absent" => (exc \in {NoExc, "run_k6"}
                                /\ "start_extra_commands" \in Range(trace))

C6_Witness_AllStepsRun ==
    /\ Finished /\ exc = NoExc
    /\ opts.pull_images /\ opts.exports = "pyroscope" /\ opts.limit_bandwidth
    /\ scn[TheScenario].extra_commands > 0
    /\ Len(StatedTrace) = Len(StatedOrder)

\* ------------------------------------------------ claims: snapshot services
BackendInUse == scn[CHOOSE n \in ScenarioNames : TRUE].snapshot_backend

SourceValid(backend, w, source) ==
    IF backend = "zfs" THEN source \in DOMAIN w.zsnaps ELSE Exists(w.fs, PathOf(source))

\* source and the directory in which a copy service creates its snapshots
\* contain one another
SourceOverlapsWorkDir(source) ==
    \E m \in ScenarioNames :
        /\ scn[m].snapshot_backend = "copy"
        /\ \/ IsPrefix(PathOf(source), ServiceOf(m).work_dir)
           \/ IsPrefix(ServiceOf(m).work_dir, PathOf(source))

\* C7: delete_snapshot(name, source) called when no snapshot exists for
\* (name, source) returns without raising, for each backend.
C7_DeleteAbsentDoesNotRaise ==
    (last.op = "delete" /\ ~last.stale) => last.exc = NoExc

\* C7, the backends for which it holds: copy and overlay
C7_DeleteAbsentDoesNotRaise_CopyOverlay ==
    (last.op = "delete" /\ ~last.stale /\ BackendInUse # "zfs") => last.exc = NoExc

C7_Witness_DeleteAbsent ==
    last.op = "delete" /\ ~last.stale /\ BackendInUse = "overlay" /\ last.exc = NoExc

\* C8: create_snapshot over a stale snapshot of the same name removes the
\* stale one and succeeds, and the new snapshot shows the content of source
\* only.  (Stated for a valid source outside the service's work directory and
\* a host that lets the overlay be mounted.)
C8_CreateOverStaleYieldsSource ==
    (/\ last.op = "create" /\ last.stale /\ last.env
     /\ SourceValid(BackendInUse, world, last.source)
     /\ ~SourceOverlapsWorkDir(last.source))
    => /\ last.exc = NoExc
       /\ View(world, last.path) = SourceContent(BackendInUse, world, last.source)

\* C9: two scenarios with different names never get the same snapshot
\* working location.
C9_DistinctNamesDistinctLocations ==
    \A n1 \in ScenarioNames, n2 \in ScenarioNames :
        (n1 # n2 /\ loc[n1] # NoPath /\ loc[n2] # NoPath) => loc[n1] # loc[n2]

\* C10 as stated: the content of every source accepted by create_snapshot is
\* what it was before any snapshot-service call or client write.
C10_SourceNeverMutated ==
    \A pr \in accepted :
        SourceContent(BackendInUse, world, pr[2])
            = SourceContent(BackendInUse, InitWorld, pr[2])

\* C10 amended: the same, for sources that do not overlap the directory in
\* which a copy service creates its snapshots.
C10_SourceNeverMutatedUnlessOverlap ==
    \A pr \in accepted :
        ~SourceOverlapsWorkDir(pr[2]) =>
            SourceContent(BackendInUse, world, pr[2])
                = SourceContent(BackendInUse, InitWorld, pr[2])

\* a client write has made the snapshot differ from its (unchanged) source
C10_Witness_WroteToSnapshot ==
    /\ last.op = "write"
    /\ \E pr \in accepted :
         /\ pr[1] = last.name
         /\ ~SourceOverlapsWorkDir(pr[2])
         /\ View(world, last.path) # SourceContent(BackendInUse, world, pr[2])

\* ------------------------------------------- claims: what a run leaves behind
NoContainersLeft ==
    /\ docker.k6 = "absent" /\ docker.ec = "absent" /\ docker.alloy = "absent"
    /\ ~docker.network

\* C11: after execute_scenario completes (it returned or it raised), no
\* load-generator, execution-client or telemetry container and no network of
\* the run remains, and the snapshot created for the run has been removed.
C11_NothingLeftAfterRun ==
    pc = "done" =>
        /\ NoContainersLeft
        /\ ~SnapshotExists(Svc, world, Name, Source)

\* C20: extra commands and the load generator are started only after the
\* execution client answered the readiness poll (wait_for_client_json_rpc
\* returned without raising), and every configured extra command has been
\* submitted to the pool before the load-generator container is started.
C20_ReadyBeforeCommandsBeforeK6 ==
    /\ \A step \in {"start_extra_commands", "run_k6"} :
         step \in Range(trace) =>
            /\ Pos("wait_for_client_json_rpc") # 0
            /\ Pos("wait_for_client_json_rpc") < Pos(step)
            /\ exc # "wait_for_client_json_rpc"
    /\ (futures.running > 0 \/ docker.k6 # "absent") =>
            Pos("wait_for_client_json_rpc") # 0
    /\ (pc = "run_k6" \/ docker.k6 # "absent" \/ "run_k6" \in Range(trace)) =>
            /\ Pos("start_extra_commands") # 0
            /\ Precedes("start_extra_commands", "run_k6")
    /\ pc = "run_k6" => futures.running = scn[TheScenario].extra_commands

C20_Witness_K6StartedWithCommands ==
    /\ docker.k6 = "running"
    /\ scn[TheScenario].extra_commands > 0
    /\ futures.running = scn[TheScenario].extra_commands

\* ------------------------------------------------- JWT provider, by threads
\* get_jwt(expiration_seconds=...) and JWTProvider(expiration_threshold_seconds=...)
Expirations == {2, 4}
Thresholds == {1, 2}

\* a host on which no scenario is being executed
IdleHost ==
    /\ world = InitWorld
    /\ scn = [n \in ScenarioNames |->
                [snapshot_backend |-> "copy", snapshot_path |-> NoPath,
                 snapshot_source |-> SnapSource, extra_commands |-> 0,
                 client |-> "nethermind"]]
    /\ opts = [pull_images |-> FALSE, exports |-> "none", limit_bandwidth |-> FALSE]
    /\ last = NoCall /\ loc = [n \in ScenarioNames |-> NoPath]
    /\ accepted = {} /\ nops = 0
    /\ ExecIdle

InitJwt ==
    /\ IdleHost
    /\ now = 0
    /\ \E threshold \in Thresholds : jwtp = JWTProvider(threshold)
    /\ th = [i \in Threads |-> ThIdle]
    /\ mark = NoMark
    /\ eng = EngIdle
    /\ poll = PollIdle
    /\ RunIdle

ThreadFree(i) == th[i].pc \in {"idle", "returned", "raised"}

\* the returned call is remembered, unless one is remembered already
Remember(c, token, stored) ==
    IF mark.set THEN UNCHANGED mark
    ELSE mark' \in {mark, [t |-> c.t, E |-> c.E, token |-> token, stored |-> stored,
                           set |-> TRUE]}

\* get_jwt up to the end of its first locked section
GetJwtCheck(i, expiration_seconds) ==
    /\ ThreadFree(i)
    /\ jwtp.lock = 0
    /\ jwtp' = cache_lock_exit(cache_lock_enter(jwtp, i))
    /\ LET c == [ThIdle EXCEPT !.op = "get_jwt", !.t = now,
                               !.E = expiration_seconds, !.later = mark.set]
       IN  IF CacheValid(jwtp, c.t)
           THEN /\ th' = [th EXCEPT ![i] = [c EXCEPT !.pc = "returned",
                                                     !.token = jwtp.cache.token]]
                /\ Remember(c, jwtp.cache.token, FALSE)
           ELSE /\ th' = [th EXCEPT ![i] = [c EXCEPT !.pc = "generate"]]
                /\ UNCHANGED mark
    /\ UNCHANGED <<now, eng, poll, snapVars, cfgVars, runVars, toolVars, execVars>>

\* get_jwt from the token's computation, made with the lock free, to the return
GetJwtStore(i) ==
    /\ th[i].pc = "generate"
    /\ jwtp.lock = 0
    /\ LET c == th[i]
           iat == c.t
           exp == iat + c.E
           token == Token(jwtp.jwt_secret_bytes, iat, exp)
           stored == ~CacheValid(jwtp, c.t)
       IN  /\ jwtp' = cache_lock_exit(
                        StoreToken(cache_lock_enter(jwtp, i), c.t, token, exp))
           /\ th' = [th EXCEPT ![i] = [c EXCEPT !.pc = "returned", !.token = token]]
           /\ Remember(c, token, stored)
    /\ UNCHANGED <<now, eng, poll, snapVars, cfgVars, runVars, toolVars, execVars>>

\* jwt_provider.invalidate_jwt()
InvalidateJwt(i) ==
    /\ ThreadFree(i)
    /\ th' = [j \in Threads |->
                IF j = i
                THEN [ThIdle EXCEPT !.op = "invalidate_jwt", !.t = now,
                                    !.pc = IF MethodLookup("invalidate_jwt") = NoExc
                                           THEN "returned" ELSE "raised",
                                    !.exc = MethodLookup("invalidate_jwt"),
                                    !.cache = jwtp.cache]
                ELSE [th[j] EXCEPT !.later = FALSE]]
    /\ mark' = NoMark
    /\ UNCHANGED <<now, jwtp, eng, poll, snapVars, cfgVars, runVars, toolVars, execVars>>

Tick ==
    /\ now < MaxTime
    /\ now' = now + 1
    /\ UNCHANGED <<jwtp, th, mark, eng, poll, snapVars, cfgVars, runVars, toolVars, execVars>>

NextJwt ==
    \/ \E i \in Threads, e \in Expirations : GetJwtCheck(i, e)
    \/ \E i \in Threads : GetJwtStore(i)
    \/ \E i \in Threads : InvalidateJwt(i)
    \/ Tick

SpecJwt == InitJwt /\ [][NextJwt]_vars

\* ---------------------------------------------------- claims: JWT provider
\* thread i's get_jwt call returned; it began after the remembered call had
\* returned and before that call's t + E - threshold
LaterCallInWindow(i) ==
    /\ th[i].op = "get_jwt" /\ th[i].pc = "returned"
    /\ th[i].later
    /\ th[i].t < mark.t + mark.E - jwtp.threshold

C13_InvalidateClearsCache ==
    \A i \in Threads :
        (th[i].op = "invalidate_jwt" /\ ThreadFree(i)) =>
            /\ th[i].exc = NoExc
            /\ th[i].cache = EmptyCache

\* C35: in get_jwt the cache mutex is held only inside the two sections that
\* read or write the cache, never while the token is built and signed; and the
\* cache is replaced only by the second locked section after its own check, so
\* a cached token that is still more than the threshold away from expiry is
\* never overwritten by a concurrent caller.
C35_LockNotHeldWhileSigningNoOverwrite ==
    /\ [](\A i \in Threads : th[i].pc = "generate" => jwtp.lock # i)
    /\ [][jwtp'.cache # jwtp.cache =>
             /\ \E i \in Threads : th[i].pc = "generate" /\ th'[i].pc = "returned"
             /\ ~(jwtp.cache.token # NoToken
                  /\ now < jwtp.cache.exp - jwtp.threshold)]_vars

\* one caller is between its two locked sections while the cache holds the
\* token another caller stored, still more than the threshold from expiry
C35_Witness_SigningBesideValidCache ==
    \E i, j \in Threads :
        /\ i # j
        /\ th[i].pc = "generate"
        /\ th[j].op = "get_jwt" /\ th[j].pc = "returned"
        /\ jwtp.cache.token = th[j].token
        /\ now < jwtp.cache.exp - jwtp.threshold
        /\ jwtp.lock = 0

\* the times at which get_jwt answers with the token from the cache
TokenIat(token) == token[2][2].iat
InWindowOf(t, p) ==
    /\ p.cache.token # NoToken
    /\ TokenIat(p.cache.token) <= t
    /\ t < p.cache.exp - p.threshold

\* C37 as stated: under any interleaving of concurrent get_jwt callers, a call
\* that returns while the cache holds a token more than the threshold away from
\* expiry returns exactly that cached token; two callers inside the same
\* validity window never end up holding different tokens.
C37_ReturnsTheCachedToken ==
    /\ [][\A i \in Threads :
            (/\ th'[i] # th[i]
             /\ th'[i].op = "get_jwt" /\ th'[i].pc = "returned"
             /\ jwtp'.cache.token # NoToken
             /\ now < jwtp'.cache.exp - jwtp'.threshold)
            => th'[i].token = jwtp'.cache.token]_vars
    /\ [](\A i, j \in Threads :
            (/\ th[i].op = "get_jwt" /\ th[i].pc = "returned"
             /\ th[j].op = "get_jwt" /\ th[j].pc = "returned"
             /\ InWindowOf(th[i].t, jwtp) /\ InWindowOf(th[j].t, jwtp))
            => th[i].token = th[j].token)

\* ---------------------------------------------------------- engine_request
\* min(expiration_seconds * 2, 3600)
MaxExpiration == 3600
Min(a, b) == IF a < b THEN a ELSE b

\* the caller's expiration_seconds (120 by default)
EngineExpirations == {120, 2000}
\* what the endpoint answers: a status, and a JSON-RPC body with or without
\* an "error" member and a "result" member
StatusCodes == {200, 401, 403, 500}
Responses == [status_code : StatusCodes, error : BOOLEAN, result : BOOLEAN]
\* requests.Response.ok
ok(resp) == resp.status_code < 400

Raised(e, x) == [e EXCEPT !.pc = "raised", !.exc = x]

\* a response handled as an authentication failure whatever its status
HandleResponse_RetriesEveryFailure(e, p, resp) ==
    IF ~ok(resp) \/ resp.error \/ ~resp.result
    THEN LET doubled == [e EXCEPT !.expiration_seconds = Min(@ * 2, MaxExpiration)]
             x == MethodLookup("invalidate_jwt")
         IN  IF x # NoExc
             THEN [eng |-> Raised(doubled, [type |-> x, error |-> "invalidate_jwt",
                                            status_code |-> 0]),
                   p |-> p]
             ELSE [eng |-> [doubled EXCEPT !.retries = @ - 1, !.invalidated = @ + 1],
                   p |-> p]
    ELSE [eng |-> [e EXCEPT !.pc = "returned", !.result = "body.result"], p |-> p]

\* the body of the while loop after requests.post returned resp
HandleResponse(e, p, resp) ==
    IF ~ok(resp)
    THEN IF resp.status_code = 401 \/ resp.status_code = 403
         THEN LET doubled == [e EXCEPT !.expiration_seconds = Min(@ * 2, MaxExpiration)]
                  x == MethodLookup("invalidate_jwt")
              IN  IF x # NoExc
                  THEN [eng |-> Raised(doubled, [type |-> x, error |-> "invalidate_jwt",
                                                 status_code |-> 0]),
                        p |-> p]
                  ELSE \* retries -= 1; continue
                       [eng |-> [doubled EXCEPT !.retries = @ - 1, !.invalidated = @ + 1],
                        p |-> p]
         ELSE [eng |-> Raised(e, RPCError("resp.text", resp.status_code)), p |-> p]
    ELSE IF resp.error
         THEN [eng |-> Raised(e, RPCError("body.error", resp.status_code)), p |-> p]
         ELSE IF ~resp.result
              THEN [eng |-> Raised(e, RPCError("No result in response", resp.status_code)),
                    p |-> p]
              ELSE [eng |-> [e EXCEPT !.pc = "returned", !.result = "body.result"], p |-> p]

InitEngine ==
    /\ IdleHost
    /\ RpcIdle

\* engine_request(engine_url, jwt_provider, rpc_request, expiration_seconds, retries)
EngineRequest(expiration_seconds, retries) ==
    /\ eng.pc \in {"idle", "returned", "raised"}
    /\ eng' = [EngIdle EXCEPT !.pc = "loop", !.retries = retries, !.R0 = retries,
                              !.expiration_seconds = expiration_seconds,
                              !.E0 = expiration_seconds]
    /\ UNCHANGED <<now, jwtp, th, mark, poll, snapVars, cfgVars, runVars, toolVars, execVars>>

\* one turn of the while loop: get_jwt, requests.post, the response handled
EngineAttempt(resp) ==
    /\ eng.pc = "loop"
    /\ eng.retries > 0
    /\ LET g == get_jwt(jwtp, now, eng.expiration_seconds)
           post == [asked |-> eng.expiration_seconds, jwt |-> g.token, resp |-> resp,
                    cache |-> g.p.cache, retries |-> eng.retries]
           r == HandleResponse([eng EXCEPT !.posts = Append(@, post)], g.p, resp)
       IN  /\ eng' = r.eng
           /\ jwtp' = r.p
    /\ UNCHANGED <<now, th, mark, poll, snapVars, cfgVars, runVars, toolVars, execVars>>

\* the while loop is left: raise RPCError("Authentication retries exhausted")
EngineExhausted ==
    /\ eng.pc = "loop"
    /\ eng.retries <= 0
    /\ eng' = Raised(eng, RPCError("Authentication retries exhausted", 401))
    /\ UNCHANGED <<now, jwtp, th, mark, poll, snapVars, cfgVars, runVars, toolVars, execVars>>

NextEngine ==
    \/ \E e \in EngineExpirations, r \in 0..MaxRetries : EngineRequest(e, r)
    \/ \E resp \in Responses : EngineAttempt(resp)
    \/ EngineExhausted
    \/ Tick

SpecEngine == InitEngine /\ [][NextEngine]_vars

\* -------------------------------------------------- claims: engine_request
EngineDone == eng.pc \in {"returned", "raised"}
AuthFailure(resp) == resp.status_code \in {401, 403}
NonAuthFailure(resp) ==
    \/ ~ok(resp) /\ ~AuthFailure(resp)
    \/ ok(resp) /\ (resp.error \/ ~resp.result)
Success(resp) == ok(resp) /\ ~resp.error /\ resp.result
ErrorPayload(resp) ==
    IF ~ok(resp) THEN "resp.text"
    ELSE IF resp.error THEN "body.error" ELSE "No result in response"
RECURSIVE Pow2(_)
Pow2(n) == IF n = 0 THEN 1 ELSE 2 * Pow2(n - 1)

\* C14: when the endpoint answers 401 to the first POST and 200 with a result
\* to the second, engine_request (called with room for a retry) makes that
\* second POST and returns its result, with the JWT cache invalidated exactly
\* once between the two POSTs.
C14_RetryAfter401Succeeds ==
    (EngineDone /\ eng.R0 >= 2 /\ Len(eng.posts) >= 1
        /\ eng.posts[1].resp.status_code = 401) =>
        /\ Len(eng.posts) >= 2
        /\ Success(eng.posts[2].resp) =>
              /\ eng.pc = "returned" /\ eng.result = "body.result"
              /\ Len(eng.posts) = 2
              /\ eng.invalidated = 1

C16_AuthFailuresExhaustBudget ==
    /\ Len(eng.posts) <= eng.R0
    /\ (EngineDone /\ \A k \in DOMAIN eng.posts : AuthFailure(eng.posts[k].resp)) =>
          /\ Len(eng.posts) = eng.R0
          /\ eng.exc = RPCError("Authentication retries exhausted", 401)

\* C17: the k-th attempt asks get_jwt for min(E * 2^(k-1), 3600), E being the
\* caller's expiration_seconds, and each 401/403 response that leaves room
\* for a retry is followed by such an attempt.
C17_WindowDoublesCapped ==
    /\ \A k \in DOMAIN eng.posts :
          eng.posts[k].asked = Min(eng.E0 * Pow2(k - 1), MaxExpiration)
    /\ \A k \in DOMAIN eng.posts :
          (EngineDone /\ AuthFailure(eng.posts[k].resp) /\ k < eng.R0) =>
              Len(eng.posts) > k

\* ------------------------------------------------ wait_for_client_json_rpc
\* Retry(total=json_rpc_wait_max_retries, backoff_factor=0.5,
\*       status_forcelist=[429, 500, 502, 503, 504], allowed_methods=["POST"])
status_forcelist == {429, 500, 502, 503, 504}
allowed_methods == {"POST"}

\* what one POST of the poll meets: no connection, or a response
Refused == [kind |-> "refused", status_code |-> 0, result |-> FALSE]
Response(status_code, result) ==
    [kind |-> "response", status_code |-> status_code, result |-> result]
PollOutcomes ==
    {Refused, Response(200, FALSE)}
        \cup {Response(c, TRUE) : c \in {200, 404} \cup status_forcelist}

\* urllib3 Retry.is_retry, Retry.increment and Retry.is_exhausted
Retry_is_retry_AnyError(method, status_code) ==
    method \in allowed_methods /\ status_code >= 400
Retry_is_retry(method, status_code) ==
    method \in allowed_methods /\ status_code \in status_forcelist
Retry_increment(total) == total - 1
Retry_is_exhausted_AtZero(total) == total <= 0
Retry_is_exhausted(total) == total < 0

PollRaised(f, e) == [f EXCEPT !.pc = "raised", !.exc = e]

\* s.post(...): one request sent by the adapter under the Retry policy, and
\* what wait_for_client_json_rpc does with the response it gets back
PollPost(f, o) ==
    LET sent == [f EXCEPT !.posts = Append(@, o)]
        left == Retry_increment(f.total)
    IN  IF o.kind = "refused"
        THEN IF Retry_is_exhausted(left) THEN PollRaised(sent, "ConnectionError")
             ELSE [sent EXCEPT !.total = left]
        ELSE IF Retry_is_retry("POST", o.status_code)
             THEN IF Retry_is_exhausted(left) THEN PollRaised(sent, "RetryError")
                  ELSE [sent EXCEPT !.total = left]
             ELSE IF o.status_code < 400
                  THEN IF o.result THEN [sent EXCEPT !.pc = "returned"]
                       ELSE PollRaised(sent, "KeyError")
                  ELSE PollRaised(sent, "Client json rpc is not available")

InitPoll ==
    /\ IdleHost
    /\ RpcIdle

\* wait_for_client_json_rpc is called: sleep(startup_wait), the session is set up
PollCall(max_retries) ==
    /\ poll.pc = "idle"
    /\ poll' = [PollIdle EXCEPT !.pc = "posting", !.N = max_retries,
                                !.total = max_retries]
    /\ UNCHANGED <<now, jwtp, th, mark, eng, snapVars, cfgVars, runVars, toolVars, execVars>>

PollSend(o) ==
    /\ poll.pc = "posting"
    /\ poll' = PollPost(poll, o)
    /\ UNCHANGED <<now, jwtp, th, mark, eng, snapVars, cfgVars, runVars, toolVars, execVars>>

\* execute_scenario: except Exception as e: log; raise e
PollReRaise ==
    /\ poll.pc = "raised"
    /\ poll' = [poll EXCEPT !.pc = "failed"]
    /\ UNCHANGED <<now, jwtp, th, mark, eng, snapVars, cfgVars, runVars, toolVars, execVars>>

NextPoll ==
    \/ \E n \in 0..MaxPollRetries : PollCall(n)
    \/ \E o \in PollOutcomes : PollSend(o)
    \/ PollReRaise

SpecPoll == InitPoll /\ [][NextPoll]_vars

\* ------------------------------------------------ claims: readiness polling
PollDone == poll.pc \in {"returned", "raised", "failed"}
PollFailed == poll.pc \in {"raised", "failed"}
Is503(o) == o.kind = "response" /\ o.status_code = 503
All503 == \A k \in DOMAIN poll.posts : Is503(poll.posts[k])
\* 503 to every attempt but the last, 200 with a result to the last
Some503Then200 ==
    /\ Len(poll.posts) >= 1
    /\ \A k \in 1..(Len(poll.posts) - 1) : Is503(poll.posts[k])
    /\ poll.posts[Len(poll.posts)] = Response(200, TRUE)

\* C18 as stated: 503 to the first k < max_retries attempts and then 200:
\* the poll succeeds; 503 to every attempt: the poll raises after exactly
\* max_retries POSTs.
C18_PollBoundAsStated ==
    /\ (PollDone /\ Some503Then200) => poll.pc = "returned"
    /\ (PollDone /\ All503) => (PollFailed /\ Len(poll.posts) = poll.N)

\* C18, amended: 503 to the first k < max_retries attempts and then 200: the
\* poll makes the attempt that is answered 200 and succeeds; 503 to every
\* attempt: the poll raises after exactly max_retries + 1 POSTs (the first
\* one and max_retries retries).
C18_PollBoundOneMore ==
    /\ (PollDone /\ Some503Then200) => poll.pc = "returned"
    /\ (PollDone /\ All503) => (PollFailed /\ Len(poll.posts) = poll.N + 1)
    /\ Len(poll.posts) <= poll.N + 1

C18_Witness_AlwaysUnavailable ==
    /\ PollFailed /\ All503
    /\ poll.N = MaxPollRetries /\ Len(poll.posts) = poll.N + 1

HardFailure(o) ==
    o.kind = "response" /\ o.status_code >= 400
        /\ o.status_code \notin {429, 500, 502, 503, 504}
RetriedStatus(o) ==
    o.kind = "response" /\ o.status_code \in {429, 500, 502, 503, 504}

SidecarStartedFirst ==
    /\ Pos("start_alloy") # 0
    /\ Pos("start_alloy") < Pos("start_execution_client")
    /\ exc # "start_alloy"

\* C21: when exports are configured, the telemetry sidecar has been started
\* before the execution-client container is started, and the client is started
\* with the sidecar's address in its environment.
C21_SidecarFirstAddressInjected ==
    (opts.exports # "none" /\ docker.ec # "absent") =>
        /\ SidecarStartedFirst
        /\ docker.ec_env = "alloy"

\* C21, amended: the sidecar is started first; its (pyroscope) address is in
\* the client's environment exactly when a pyroscope export is configured and
\* the client is Nethermind.
C21_SidecarFirstPyroscopeForNethermind ==
    /\ (opts.exports # "none" /\ docker.ec # "absent") => SidecarStartedFirst
    /\ docker.ec # "absent" =>
         (docker.ec_env = "alloy" <=>
             (opts.exports = "pyroscope" /\ scn[TheScenario].client = "nethermind"))

C21_Witness_ClientStartedAfterSidecar ==
    /\ docker.ec = "running"
    /\ docker.ec_env = "alloy"
    /\ docker.alloy = "running"

LookupSteps ==
    { [step |-> "k6_get", absent |-> docker.k6 = "absent", skip |-> "ec_get"],
      [step |-> "ec_get", absent |-> docker.ec = "absent", skip |-> "alloy_get"],
      [step |-> "alloy_get", absent |-> docker.alloy = "absent", skip |-> "net_get"],
      [step |-> "net_get", absent |-> ~docker.network, skip |-> "remove_directories"] }

\* C24: in cleanup_scenario the lookup of a container or network that does
\* not exist raises nothing: cleanup goes on with the next section, so that
\* after a setup failure that left nothing behind the container and network
\* steps end without an error.
C24_LookupOfAbsentIsSuccess ==
    [][\A l \in LookupSteps :
          (pc = l.step /\ l.absent /\ pc' # pc) =>
              (pc' = l.skip /\ cexc' = NoExc /\ docker' = docker)]_vars

C24_Witness_CleanupAfterEarlyFailure ==
    /\ pc = "remove_directories"
    /\ exc = "prepare_jwt_secret_file"
    /\ cexc = NoExc
    /\ NoContainersLeft
    /\ {"k6_get", "ec_get", "alloy_get", "net_get"} \subseteq Range(trace)

IsSecretFile(f) == f.kind = "file" /\ f.data \in TokenBytes

\* C25: the client is started only after this run wrote a fresh secret, and
\* once execute_scenario has completed no file outside the run's output
\* directory holds the secret.
C25_SecretFreshAndNotPersisted ==
    /\ docker.ec # "absent" =>
         /\ Pos("prepare_jwt_secret_file") # 0
         /\ Pos("prepare_jwt_secret_file") < Pos("start_execution_client")
         /\ exc # "prepare_jwt_secret_file"
    /\ pc = "done" =>
         \A p \in DOMAIN world.fs :
            IsSecretFile(world.fs[p]) => IsPrefix(outputs_dir, p)

\* the load-generator container and the execution-client container, with the
\* cleanup steps that stop them, save their logs and remove them
LoggedContainers ==
    { [c |-> "k6", logs |-> "k6_logs", stop |-> "k6_stop", remove |-> "k6_remove"],
      [c |-> "ec", logs |-> "ec_logs", stop |-> "ec_stop", remove |-> "ec_remove"] }

\* C36: in cleanup, for the load-generator container and for the
\* execution-client container, the container is stopped first, then its log
\* stream is written to the run's output directory, and only then is the
\* container removed; a container is never removed before its logs are saved.
C36_StopThenLogsThenRemove ==
    /\ [](\A l \in LoggedContainers :
            /\ docker[l.logs] => (0 < Pos(l.stop) /\ Pos(l.stop) < Pos(l.logs))
            /\ Pos(l.remove) > 0 =>
                  (docker[l.logs] /\ Pos(l.logs) < Pos(l.remove)))
    /\ [][\A l \in LoggedContainers :
            (docker[l.c] # "absent" /\ docker'[l.c] = "absent") =>
                (pc = l.remove /\ docker[l.c] = "exited" /\ docker[l.logs])]_vars

\* both containers were stopped, had their logs saved and were removed
C36_Witness_BothLoggedAndRemoved ==
    /\ Finished
    /\ \A l \in LoggedContainers :
          /\ docker[l.c] = "absent" /\ docker[l.logs]
          /\ Pos(l.stop) < Pos(l.logs) /\ Pos(l.logs) < Pos(l.remove)

\* ------------------------------------------- extra commands, by worker threads
\* A task is "pending" (queued), "running", "finished" (the output stream
\* ended), "failed" (exec_run raised, which is logged) or "cancelled".
CountTasks(c, st) == Cardinality({i \in DOMAIN c.task : c.task[i] = st})

\* a pool with a single worker
max_workers_One(commands) == 1

\* ThreadPoolExecutor(max_workers=len(execution_client_extra_commands))
max_workers(commands) == commands

\* ThreadPoolExecutor.submit: queue the work item; start a worker thread
\* unless a worker is idle or max_workers threads exist already
submit(c) ==
    LET q == [c EXCEPT !.task = Append(@, "pending")]
    IN  IF c.idle > 0 THEN [q EXCEPT !.idle = @ - 1]
        ELSE IF c.threads < c.max_workers THEN [q EXCEPT !.threads = @ + 1]
        ELSE q

\* shutdown that waits for the running tasks
shutdown_Waits(c, wait, cancel_futures) ==
    [pool |-> [c EXCEPT !.task = [i \in DOMAIN @ |->
                                    IF @[i] = "pending" THEN "cancelled" ELSE @[i]]],
     blocked |-> CountTasks(c, "running") > 0]

\* ThreadPoolExecutor.shutdown(wait, cancel_futures): queued work items are
\* cancelled if cancel_futures; the caller joins the workers only if wait
shutdown(c, wait, cancel_futures) ==
    [pool |-> [c EXCEPT !.task = [i \in DOMAIN @ |->
                                    IF cancel_futures /\ @[i] = "pending"
                                    THEN "cancelled" ELSE @[i]]],
     blocked |-> wait /\ CountTasks(c, "running") > 0]

InitCmd ==
    /\ IdleHost
    /\ RpcIdle

\* start_extra_commands is called with n commands, those in `hang' never end
StartExtraCommandsCall(n, hang) ==
    /\ cmds.pc = "idle"
    /\ cmds' = IF n = 0
               THEN [cmds EXCEPT !.pc = "started"]
               ELSE [cmds EXCEPT !.pc = "submitting", !.commands = n, !.hang = hang,
                                 !.pool = TRUE, !.max_workers = max_workers(n)]
    /\ UNCHANGED <<k6run, toolVars, snapVars, cfgVars, rpcVars, execVars>>

\* one turn of the loop over the commands: submit, append the future
SubmitCommand ==
    /\ cmds.pc = "submitting"
    /\ LET c == submit(cmds)
       IN  cmds' = [c EXCEPT !.futures = @ + 1,
                             !.pc = IF Len(c.task) = c.commands THEN "started" ELSE @]
    /\ UNCHANGED <<k6run, toolVars, snapVars, cfgVars, rpcVars, execVars>>

\* a worker thread that runs nothing takes the oldest queued work item
WorkerTake(i) ==
    /\ i \in DOMAIN cmds.task
    /\ cmds.task[i] = "pending"
    /\ \A j \in 1..(i - 1) : cmds.task[j] # "pending"
    /\ CountTasks(cmds, "running") < cmds.threads
    /\ cmds' = [cmds EXCEPT !.task[i] = "running"]
    /\ UNCHANGED <<k6run, toolVars, snapVars, cfgVars, rpcVars, execVars>>

\* _execute_single_command without its except clause
execute_single_command_Uncaught(how) ==
    IF how = "raised" THEN [task |-> "failed", logged |-> FALSE, exception |-> TRUE]
    ELSE [task |-> "finished", logged |-> FALSE, exception |-> FALSE]

\* _execute_single_command: exec_run or the output stream raising is caught by
\* `except Exception', which logs "Command execution failed"; the function
\* returns normally either way, so the future holds no exception
execute_single_command(how) ==
    IF how = "raised" THEN [task |-> "failed", logged |-> TRUE, exception |-> FALSE]
    ELSE [task |-> "finished", logged |-> FALSE, exception |-> FALSE]

\* _execute_single_command returns: the output stream ended or exec_run raised
TaskFinish(i, how) ==
    /\ i \in DOMAIN cmds.task
    /\ cmds.task[i] = "running"
    /\ i \notin cmds.hang
    /\ LET r == execute_single_command(how)
       IN  cmds' = [cmds EXCEPT !.task[i] = r.task,
                               !.errors = IF r.logged THEN @ \cup {i} ELSE @,
                               !.idle = IF cmds.pool THEN @ + 1 ELSE @]
    /\ UNCHANGED <<k6run, toolVars, snapVars, cfgVars, rpcVars, execVars>>

\* execute_scenario goes on after start_extra_commands: prepare_k6_script and
\* run_k6 are called without any look at the futures
RunK6Call ==
    /\ cmds.pc = "started"
    /\ cmds' = [cmds EXCEPT !.pc = "run_k6", !.at_k6 = cmds.task]
    /\ UNCHANGED <<k6run, toolVars, snapVars, cfgVars, rpcVars, execVars>>

\* stop_extra_commands, called by cleanup_scenario
StopExtraCommands ==
    /\ cmds.pc \in {"started", "run_k6"}
    /\ cmds' = IF cmds.futures = 0
               THEN [cmds EXCEPT !.pc = "stopped", !.at_stop = cmds.task]
               ELSE LET r == shutdown(cmds, FALSE, TRUE)
                    IN  [r.pool EXCEPT !.pc = IF r.blocked THEN "blocked" ELSE "stopped",
                                       !.futures = 0, !.pool = FALSE,
                                       !.at_stop = cmds.task]
    /\ UNCHANGED <<k6run, toolVars, snapVars, cfgVars, rpcVars, execVars>>

NextCmd ==
    \/ \E n \in 0..MaxCommands : \E hang \in SUBSET (1..n) : StartExtraCommandsCall(n, hang)
    \/ SubmitCommand
    \/ \E i \in 1..MaxCommands : WorkerTake(i)
    \/ \E i \in 1..MaxCommands, how \in {"ended", "raised"} : TaskFinish(i, how)
    \/ RunK6Call
    \/ StopExtraCommands

SpecCmd == InitCmd /\ [][NextCmd]_vars

\* ---------------------------------------------------- claims: extra commands
\* C22: stop_extra_commands cancels every task that has not started and
\* returns without waiting for the running ones: it has returned even while
\* a command that never ends is still running, and no task starts afterwards.
C22_StopCancelsPendingAndReturns ==
    /\ cmds.pc # "blocked"
    /\ cmds.pc = "stopped" =>
         /\ cmds.futures = 0 /\ ~cmds.pool
         /\ \A i \in DOMAIN cmds.task :
              /\ cmds.task[i] # "pending"
              /\ cmds.at_stop[i] = "pending" => cmds.task[i] = "cancelled"
              /\ cmds.task[i] = "running" => cmds.at_stop[i] = "running"

C22_Witness_StoppedWhileCommandHangs ==
    /\ cmds.pc = "stopped"
    /\ \E i \in DOMAIN cmds.task : i \in cmds.hang /\ cmds.task[i] = "running"
    /\ \E i \in DOMAIN cmds.task : cmds.task[i] = "cancelled"

\* C23: the pool has one worker per command, and a queued command never has
\* to wait for another command to finish: as long as the pool is up there is
\* a worker thread free for every queued command, whatever the others do.
C23_OneWorkerPerCommand ==
    /\ cmds.pool => cmds.max_workers = cmds.commands
    /\ cmds.pool =>
         CountTasks(cmds, "pending") <= cmds.threads - CountTasks(cmds, "running")
    /\ cmds.pc \in {"started", "run_k6", "stopped", "blocked"} =>
         Len(cmds.task) = cmds.commands

C23_Witness_StartedBesideHangingCommand ==
    /\ cmds.pool
    /\ \E i, j \in DOMAIN cmds.task :
         /\ i \in cmds.hang /\ cmds.task[i] = "running"
         /\ j # i /\ cmds.task[j] = "finished"

\* C39: a failure of an extra command (the exec call or the output stream
\* raising) is contained in that command's task: it is logged, it changes no
\* other command's task and nothing of the pool, and it neither ends
\* execute_scenario nor keeps it from going on to the load-generation run.
C39_CommandFailureContained ==
    /\ [](\A i \in DOMAIN cmds.task : cmds.task[i] = "failed" => i \in cmds.errors)
    /\ [](cmds.pc = "started" => ENABLED RunK6Call)
    /\ [][\A i \in DOMAIN cmds.task :
            (cmds.task[i] = "running" /\ cmds'.task[i] = "failed") =>
                /\ \A j \in DOMAIN cmds.task \ {i} : cmds'.task[j] = cmds.task[j]
                /\ cmds'.pc = cmds.pc /\ cmds'.pool = cmds.pool
                /\ cmds'.threads = cmds.threads /\ cmds'.futures = cmds.futures]_vars

\* run_k6 was called after one command had failed, and another command
\* started and ended after that
C39_Witness_K6RunAfterFailedCommand ==
    /\ cmds.pc = "run_k6"
    /\ \E i, j \in DOMAIN cmds.task :
         /\ cmds.at_k6[i] = "failed" /\ i \in cmds.errors
         /\ cmds.at_k6[j] = "pending" /\ cmds.task[j] = "finished"

\* ------------------------------------------------- build_k6_script_config
MaxIterations == 3
MaxRate == 2
MaxLines == 3

Max(a, b) == IF a > b THEN a ELSE b

\* build_k6_script_config(pre_allocated_vus: int = 2, max_vus: int = 2)
pre_allocated_vus == 2
max_vus == 2

\* the quotient rounded down
math_ceil_Floor(a, b) == a \div b

\* math.ceil(a / b), for a >= 0 and b >= 1
math_ceil(a, b) == (a + b - 1) \div b

\* f"{duration_seconds}s"
FormatSeconds(n) == <<n, "s">>

\* `if rate and rate > 0'
RateGiven(rate) == rate # None /\ rate[1] # 0 /\ rate[1] > 0

\* the scenario entry of build_k6_script_config(iterations, duration, rate)
build_k6_script_config(iterations, duration, rate) ==
    IF RateGiven(rate)
    THEN [executor |-> "constant-arrival-rate",
          rate |-> rate[1],
          timeUnit |-> "1s",
          duration |-> IF duration = None
                       THEN FormatSeconds(Max(1, math_ceil(iterations, rate[1])))
                       ELSE duration,
          preAllocatedVUs |-> pre_allocated_vus,
          maxVUs |-> max_vus,
          env |-> ("EXPB_RATE_MODE" :> "1") @@ ("EXPB_ABORT_ON_EOF" :> "0")]
    ELSE [executor |-> "shared-iterations",
          vus |-> 1,
          iterations |-> iterations,
          maxDuration |-> duration,
          env |-> << >>]

\* prepare_k6_script passes a rate
prepare_k6_script_WithRate(payloads_amount, k6_duration) ==
    build_k6_script_config(payloads_amount, k6_duration, <<1>>)

\* prepare_k6_script: build_k6_script_config(iterations=k6_payloads_amount,
\* duration=k6_duration), the rate left at its default None
prepare_k6_script(payloads_amount, k6_duration) ==
    build_k6_script_config(payloads_amount, k6_duration, None)

\* ------------------------------------------------------------ replay script
\* open(path).trim().split(/\r?\n/) of a file of n non-empty lines
ReadLines(n) == IF n = 0 THEN <<"">> ELSE [k \in 1..n |-> "json"]

\* __ENV of the scenario: the scenario's env entries over the process's
Getenv(r, name, default) ==
    IF name \in DOMAIN r.scenario.env THEN r.scenario.env[name]
    ELSE IF name \in DOMAIN r.env THEN r.env[name]
    ELSE default

ABORT_ON_EOF(r) == Getenv(r, "EXPB_ABORT_ON_EOF", "0") = "1"
startIdx0(r) == Max(0, r.startLine - 1)
totalPairs(r) ==
    Max(0, Min(Len(r.payloadLines), Len(r.fcuLines)) - startIdx0(r))

safeGetLine(arr, idx) == IF idx >= 0 /\ idx < Len(arr) THEN arr[idx + 1] ELSE ""

\* the index counts the iterations of the current time unit only
IterationIndex_InTimeUnit(r, v) == startIdx0(r) + r.slot

\* const idx = startIdx0 + exec.scenario.iterationInTest
IterationIndex(r, v) == startIdx0(r) + r.iter

\* every iteration goes on to its requests
NoRequest_Never(r, idx) == FALSE

\* the two early returns of the iteration: out of data, or an empty line
NoRequest(r, idx) ==
    \/ idx >= startIdx0(r) + totalPairs(r)
    \/ safeGetLine(r.payloadLines, idx) = ""
    \/ safeGetLine(r.fcuLines, idx) = ""

\* exec.test.abort(...)
Abort(r, why) == [r EXCEPT !.pc = "done", !.aborted = why]

\* a non-VALID status aborts the test
OnStatus_Aborts(r, st) ==
    IF st = "VALID" THEN r ELSE Abort(r, "status")

\* check(r, {..., 'result_status_VALID': () => npValid}); if not VALID the
\* counter is incremented and console.error is called (LOG_NON_VALID is on)
OnStatus(r, st) ==
    IF st = "VALID" THEN r
    ELSE [r EXCEPT !.nonvalid = @ + 1, !.failed_checks = @ + 1, !.logged = @ + 1]

Statuses == {"VALID", "INVALID"}
ProcessEnvs == {<< >>, ("EXPB_ABORT_ON_EOF" :> "1")}
\* EXPB_PAYLOADS_START: the first line (the default), or the second
StartLines == {1, 2}
DirectDurations == {None, <<2, "s">>}
ScenarioDurations == {<<10, "m">>}

RateMode(r) == r.scenario.executor = "constant-arrival-rate"
DurationSeconds(d) == IF d[2] = "m" THEN 60 * d[1] ELSE d[1]
AllIdle(r) == \A v \in DOMAIN r.vu : r.vu[v].phase = "idle"

\* may the executor start another iteration?
CanStart(r) ==
    IF RateMode(r)
    THEN r.t < DurationSeconds(r.scenario.duration) /\ r.slot < r.scenario.rate
    ELSE r.iter < r.scenario.iterations

InitK6 ==
    /\ IdleHost
    /\ RpcIdle

\* Executor.prepare_k6_script writes the configuration of the run
PrepareK6ScriptCall(payloads_amount, k6_duration) ==
    /\ k6run.pc = "idle"
    /\ k6run' = [k6run EXCEPT !.pc = "configured", !.caller = "executor",
                              !.iterations = payloads_amount,
                              !.duration = k6_duration,
                              !.scenario = prepare_k6_script(payloads_amount, k6_duration)]
    /\ UNCHANGED <<cmds, toolVars, snapVars, cfgVars, rpcVars, execVars>>

\* build_k6_script_config called with a rate and a duration of the caller's
BuildK6ScriptConfigCall(iterations, duration, rate) ==
    /\ k6run.pc = "idle"
    /\ k6run' = [k6run EXCEPT !.pc = "configured", !.caller = "direct",
                              !.iterations = iterations,
                              !.duration = duration, !.rate = rate,
                              !.scenario = build_k6_script_config(iterations, duration, rate)]
    /\ UNCHANGED <<cmds, toolVars, snapVars, cfgVars, rpcVars, execVars>>

\* k6 loads the script: the options of the configuration file (the arguments
\* of the call that built it are gone), the environment and the two files
K6Run(np, nf, startLine, env) ==
    /\ k6run.pc = "configured"
    /\ k6run' = [k6run EXCEPT !.pc = "running",
                              !.iterations = 0, !.duration = None, !.rate = None,
                              !.payloadLines = ReadLines(np),
                              !.fcuLines = ReadLines(nf),
                              !.startLine = startLine, !.env = env,
                              !.vu = [v \in 1..(IF RateMode(k6run) THEN k6run.scenario.maxVUs
                                                ELSE k6run.scenario.vus) |-> VuIdle]]
    /\ UNCHANGED <<cmds, toolVars, snapVars, cfgVars, rpcVars, execVars>>

\* the default function starts on worker v, up to its first request
IterStart(v) ==
    /\ k6run.pc = "running"
    /\ v \in DOMAIN k6run.vu
    /\ k6run.vu[v].phase = "idle"
    /\ CanStart(k6run)
    /\ LET idx == IterationIndex(k6run, v)
           r == [k6run EXCEPT !.iter = @ + 1, !.slot = IF RateMode(k6run) THEN @ + 1 ELSE @,
                              !.sel = Append(@, idx)]
       IN  k6run' = IF NoRequest(k6run, idx)
                    THEN IF ABORT_ON_EOF(k6run) THEN Abort(r, "eof") ELSE r
                    ELSE [r EXCEPT !.vu[v] = [phase |-> "np", i |-> k6run.iter,
                                              idx |-> idx]]
    /\ UNCHANGED <<cmds, toolVars, snapVars, cfgVars, rpcVars, execVars>>

\* group engine_newPayload: the POST, its checks
IterNewPayload(v, st) ==
    /\ k6run.pc = "running"
    /\ v \in DOMAIN k6run.vu
    /\ k6run.vu[v].phase = "np"
    /\ LET r == OnStatus(k6run, st)
       IN  k6run' = IF r.pc = "running" THEN [r EXCEPT !.vu[v].phase = "fcu"] ELSE r
    /\ UNCHANGED <<cmds, toolVars, snapVars, cfgVars, rpcVars, execVars>>

\* group engine_forkchoiceUpdated: the POST, its checks; the iteration ends
IterForkchoiceUpdated(v, st) ==
    /\ k6run.pc = "running"
    /\ v \in DOMAIN k6run.vu
    /\ k6run.vu[v].phase = "fcu"
    /\ LET r == OnStatus(k6run, st)
       IN  k6run' = IF r.pc = "running"
                    THEN [r EXCEPT !.vu[v] = VuIdle]
                    ELSE r
    /\ UNCHANGED <<cmds, toolVars, snapVars, cfgVars, rpcVars, execVars>>

\* constant-arrival-rate: the next time unit begins
K6Tick ==
    /\ k6run.pc = "running"
    /\ RateMode(k6run)
    /\ k6run.t < DurationSeconds(k6run.scenario.duration)
    /\ k6run' = [k6run EXCEPT !.t = @ + 1, !.slot = 0]
    /\ UNCHANGED <<cmds, toolVars, snapVars, cfgVars, rpcVars, execVars>>

\* shared-iterations: maxDuration is over before the iterations are
K6MaxDuration ==
    /\ k6run.pc = "running"
    /\ ~RateMode(k6run)
    /\ k6run' = [k6run EXCEPT !.pc = "done", !.timedout = TRUE]
    /\ UNCHANGED <<cmds, toolVars, snapVars, cfgVars, rpcVars, execVars>>

\* the executor has nothing left to start and every worker is idle
K6End ==
    /\ k6run.pc = "running"
    /\ AllIdle(k6run)
    /\ IF RateMode(k6run) THEN k6run.t = DurationSeconds(k6run.scenario.duration)
       ELSE k6run.iter = k6run.scenario.iterations
    /\ k6run' = [k6run EXCEPT !.pc = "done"]
    /\ UNCHANGED <<cmds, toolVars, snapVars, cfgVars, rpcVars, execVars>>

NextK6 ==
    \/ \E n \in 0..MaxIterations, d \in ScenarioDurations : PrepareK6ScriptCall(n, d)
    \/ \E n \in 0..MaxIterations, d \in DirectDurations :
         \E rate \in {None} \cup {<<x>> : x \in 0..MaxRate} :
            BuildK6ScriptConfigCall(n, d, rate)
    \/ \E np \in 0..MaxLines, nf \in 0..MaxLines, startLine \in StartLines :
         \E env \in ProcessEnvs :
            /\ nf \in (np - 1)..(np + 1)
            /\ K6Run(np, nf, startLine, env)
    \/ \E v \in 1..max_vus : IterStart(v)
    \/ \E v \in 1..max_vus, st \in Statuses : IterNewPayload(v, st)
    \/ \E v \in 1..max_vus, st \in Statuses : IterForkchoiceUpdated(v, st)
    \/ K6Tick
    \/ K6MaxDuration
    \/ K6End

SpecK6 == InitK6 /\ [][NextK6]_vars

\* k6 keeps scheduling: whatever can happen next eventually does
SpecK6Fair == SpecK6 /\ WF_vars(NextK6)

\* ------------------------------------------------- claims: load generation
Busy(v) == k6run.vu[v].phase # "idle"

\* C26: the k-th iteration of the run (k counted from 0 over all workers)
\* selects the line pair startIdx0 + k, so no two iterations select the same
\* pair, no pair below the last selected one is left out, and two workers
\* never work on the same pair at once.
C26_PairByGlobalIteration ==
    /\ \A k \in DOMAIN k6run.sel : k6run.sel[k] = startIdx0(k6run) + (k - 1)
    /\ \A v, w \in DOMAIN k6run.vu :
         (v # w /\ Busy(v) /\ Busy(w)) => k6run.vu[v].idx # k6run.vu[w].idx

C26_Witness_TwoWorkersTwoPairs ==
    /\ k6run.startLine = 2
    /\ Len(k6run.vu) = 2
    /\ Busy(1) /\ Busy(2)
    /\ k6run.vu[1].idx # k6run.vu[2].idx

\* C27: a status other than VALID is counted as a failed check and logged,
\* and it never aborts the run: the iterations that remain are executed, so
\* that a fixed-iteration run that is neither cut short by maxDuration nor
\* aborted at the end of the data ends after all its iterations.
C27_NonValidNeverAborts ==
    /\ k6run.aborted # "status"
    /\ k6run.failed_checks = k6run.nonvalid
    /\ k6run.logged = k6run.nonvalid
    /\ (k6run.pc = "done" /\ ~RateMode(k6run) /\ ~k6run.timedout /\ k6run.aborted = "none") =>
          k6run.iter = k6run.scenario.iterations

C27_Witness_IterationAfterNonValid ==
    /\ k6run.pc = "running"
    /\ ~RateMode(k6run)
    /\ k6run.nonvalid > 0
    /\ k6run.vu[1].phase = "np"
    /\ k6run.vu[1].i > 0

OutOfData(r, idx) == idx >= startIdx0(r) + totalPairs(r)

\* C28: an iteration whose index is at or beyond the available pairs sends
\* no request; the run is aborted for it only if the abort-on-end-of-data
\* flag is set, and otherwise goes on silently; and every run ends.
C28_EndOfDataTerminates ==
    /\ [](\A v \in DOMAIN k6run.vu : Busy(v) => ~OutOfData(k6run, k6run.vu[v].idx))
    /\ [](k6run.aborted # "none" => (k6run.aborted = "eof" /\ ABORT_ON_EOF(k6run)))
    /\ [](k6run.aborted = "eof" =>
            NoRequest(k6run, k6run.sel[Len(k6run.sel)]))
    /\ (k6run.pc = "running" ~> k6run.pc = "done")

C28_Witness_SilentStopAtEndOfData ==
    /\ k6run.pc = "done"
    /\ k6run.aborted = "none" /\ ~k6run.timedout
    /\ ~ABORT_ON_EOF(k6run)
    /\ k6run.sel # << >>
    /\ ~OutOfData(k6run, k6run.sel[1])
    /\ OutOfData(k6run, k6run.sel[Len(k6run.sel)])

FixedMode(r) ==
    /\ r.scenario.executor = "shared-iterations"
    /\ r.scenario.vus = 1
    /\ "rate" \notin DOMAIN r.scenario

\* the configuration a call without a positive rate must produce
FixedModeOf(r) ==
    /\ FixedMode(r)
    /\ r.scenario.iterations = r.iterations
    /\ r.scenario.maxDuration = r.duration

\* C29: without a positive rate the configuration is shared-iterations with
\* one virtual user, N = iterations, no rate, and the duration as maxDuration;
\* such a run has one worker and executes exactly N iterations unless
\* maxDuration or an abort ends it first; prepare_k6_script always configures
\* this mode, with N = payloads_amount.
C29_FixedIterationMode ==
    /\ (k6run.pc = "configured" /\ ~RateGiven(k6run.rate)) => FixedModeOf(k6run)
    /\ k6run.caller = "executor" => FixedMode(k6run)
    /\ (k6run.pc = "configured" /\ k6run.caller = "executor") => FixedModeOf(k6run)
    /\ (k6run.pc \in {"running", "done"} /\ FixedMode(k6run)) =>
          /\ Len(k6run.vu) = 1
          /\ k6run.iter <= k6run.scenario.iterations
          /\ (k6run.pc = "done" /\ ~k6run.timedout /\ k6run.aborted = "none") =>
                k6run.iter = k6run.scenario.iterations

C29_Witness_ExecutorRunOfNIterations ==
    /\ k6run.caller = "executor"
    /\ k6run.pc = "done"
    /\ ~k6run.timedout /\ k6run.aborted = "none"
    /\ k6run.scenario.iterations = MaxIterations
    /\ k6run.iter = MaxIterations

RateModeCall ==
    k6run.pc = "configured" /\ RateGiven(k6run.rate) /\ k6run.rate[1] >= 1

\* C30: in constant-arrival-rate mode without a duration, the duration is
\* ceil(iterations / rate) seconds; a given duration is used unchanged.
C30_DurationIsCeil ==
    RateModeCall =>
        /\ k6run.scenario.executor = "constant-arrival-rate"
        /\ k6run.duration = None =>
             k6run.scenario.duration =
                FormatSeconds((k6run.iterations + k6run.rate[1] - 1) \div k6run.rate[1])
        /\ k6run.duration # None => k6run.scenario.duration = k6run.duration

\* C30, amended: the duration is max(1, ceil(iterations / rate)) seconds.
C30_DurationIsCeilAtLeastOne ==
    RateModeCall =>
        /\ k6run.scenario.executor = "constant-arrival-rate"
        /\ k6run.duration = None =>
             \E n \in 1..(MaxIterations + 1) :
                /\ k6run.scenario.duration = <<n, "s">>
                /\ \/ n = 1 /\ k6run.iterations <= k6run.rate[1]
                   \/ /\ n > 1
                      /\ (n - 1) * k6run.rate[1] < k6run.iterations
                      /\ k6run.iterations <= n * k6run.rate[1]
        /\ k6run.duration # None => k6run.scenario.duration = k6run.duration

C30_Witness_RoundedUp ==
    /\ RateModeCall
    /\ k6run.duration = None
    /\ k6run.iterations = 3 /\ k6run.rate = <<2>>
    /\ k6run.scenario.duration = <<2, "s">>

\* ------------------------------------------------------ payload compressor
\* the longest input file, in lines, and the largest compression factor
MaxPayloads == 4
MaxFactor == 2

\* the "method" member of the lines of the input file
Methods == {"engine_newPayloadV3", "engine_newPayloadV4"}

\* _compress_payloads(payloads): `method = payloads[0]["method"]' raises
\* IndexError on an empty list; the engine is taken to answer every request
_compress_payloads(payloads) == IF payloads = << >> THEN "IndexError" ELSE NoExc

\* one call of _compress_payloads made by the loop: the batch is recorded; if
\* the call returns, the list starts again empty
CompressCall(c) ==
    LET e == _compress_payloads(c.payloads_to_compress)
        d == [c EXCEPT !.batches = Append(@, c.payloads_to_compress), !.exc = e]
    IN  IF e = NoExc THEN [d EXCEPT !.payloads_to_compress = << >>]
        ELSE [d EXCEPT !.pc = "raised"]

\* `if prev_method and payload_data["method"] != prev_method:'
HardFork(c, method) == c.prev_method # "" /\ method # c.prev_method

\* `if len(payloads_to_compress) % self._compression_factor == 0:'
FactorReached(c) == Len(c.payloads_to_compress) % c.compression_factor = 0

\* the body of `for line in f:' for line number n; a payload is known by
\* its line number
LoopBody(c, n) ==
    LET method == c.input[n]
        a == IF HardFork(c, method) THEN CompressCall(c) ELSE c
        b == [a EXCEPT !.payloads_to_compress = Append(@, n),
                       !.prev_method = method, !.line = n]
    IN  IF a.pc = "raised" THEN a
        ELSE IF FactorReached(b) THEN CompressCall(b) ELSE b

\* after the loop: `if payloads_to_compress:'
AfterLoop(c) ==
    LET a == IF c.payloads_to_compress # << >> THEN CompressCall(c) ELSE c
    IN  IF a.pc = "raised" THEN a ELSE [a EXCEPT !.pc = "done"]

InitComp ==
    /\ IdleHost
    /\ RpcIdle

\* start_payloads_compression is called on an input file
StartPayloadsCompression(input, factor) ==
    /\ comp.pc = "idle"
    /\ comp' = [CompIdle EXCEPT !.pc = "reading", !.input = input,
                                !.compression_factor = factor]
    /\ UNCHANGED <<gen, cli, runVars, snapVars, cfgVars, rpcVars, execVars>>

ReadLine ==
    /\ comp.pc = "reading"
    /\ comp.line < Len(comp.input)
    /\ comp' = LoopBody(comp, comp.line + 1)
    /\ UNCHANGED <<gen, cli, runVars, snapVars, cfgVars, rpcVars, execVars>>

EndOfFile ==
    /\ comp.pc = "reading"
    /\ comp.line = Len(comp.input)
    /\ comp' = AfterLoop(comp)
    /\ UNCHANGED <<gen, cli, runVars, snapVars, cfgVars, rpcVars, execVars>>

NextComp ==
    \/ \E n \in 0..MaxPayloads, factor \in 1..MaxFactor :
         \E input \in [1..n -> Methods] : StartPayloadsCompression(input, factor)
    \/ ReadLine
    \/ EndOfFile

SpecComp == InitComp /\ [][NextComp]_vars

\* ------------------------------------------------- claims: payload compressor
RECURSIVE Flatten(_)
Flatten(q) == IF q = << >> THEN << >> ELSE Head(q) \o Flatten(Tail(q))

\* C38: the payload compressor partitions the input payloads into batches in
\* input order such that every input payload belongs to exactly one batch,
\* every batch passed to _compress_payloads is non-empty, holds at most
\* compression_factor payloads and contains only payloads with the same
\* method; any payloads left at end of input form a final batch.
C38_BatchesPartitionInput ==
    /\ \A k \in DOMAIN comp.batches :
         LET batch == comp.batches[k]
         IN  /\ batch # << >>
             /\ Len(batch) <= comp.compression_factor
             /\ \A x, y \in DOMAIN batch : comp.input[batch[x]] = comp.input[batch[y]]
    /\ Flatten(comp.batches) \o comp.payloads_to_compress =
         [n \in 1..comp.line |-> n]
    /\ comp.pc = "done" =>
         Flatten(comp.batches) = [n \in 1..Len(comp.input) |-> n]

\* ------------------------------------------------------- execute-scenarios
\* scenarios in the configuration file, `repeat' of a scenario, and passes
\* over the scenarios after which --loop is watched no further
MaxScenarios == 2
MaxRepeat == 2
MaxPasses == 2

\* scenario names, token by token
CliNames == {<<"a">>, <<"a", "b">>, <<"b">>}

\* --filter values: a pattern that is a plain text, a pattern "^text$", and a
\* pattern re.compile rejects
Patterns ==
    { [kind |-> "text", text |-> <<"a">>], [kind |-> "text", text |-> <<"b">>],
      [kind |-> "text", text |-> <<"z">>], [kind |-> "anchored", text |-> <<"a">>],
      [kind |-> "invalid", text |-> <<"(">>] }
Filters == {None} \cup {<<p>> : p \in Patterns}

\* re.compile(filter): re.error for a pattern that is no regular expression
re_compile(pattern) == IF pattern.kind = "invalid" THEN "re.error" ELSE NoExc

\* the pattern has to match the whole name
search_FullMatch(pattern, name) == name = pattern.text

\* pattern.search(name) is not None: a match anywhere in the name
search(pattern, name) ==
    IF pattern.kind = "anchored" THEN name = pattern.text
    ELSE \E i \in 1..Len(name) :
            /\ i + Len(pattern.text) - 1 <= Len(name)
            /\ SubSeq(name, i, i + Len(pattern.text) - 1) = pattern.text

\* the dict comprehension over scenarios_configs.items(): insertion order kept
RECURSIVE FilterScenarios(_, _)
FilterScenarios(pattern, scenarios) ==
    IF scenarios = << >> THEN << >>
    ELSE (IF search(pattern, Head(scenarios).name) THEN <<Head(scenarios)>> ELSE << >>)
         \o FilterScenarios(pattern, Tail(scenarios))

\* every scenario runs once, whatever its `repeat'
range_Once(scenario) == 1

\* range(scenario.repeat): the number of turns of the inner loop
range(scenario) == scenario.repeat

\* the two for loops move on after an execution that returned
Advance(c) ==
    IF c.iteration + 1 < range(c.filtered_scenarios[c.k])
    THEN [c EXCEPT !.iteration = @ + 1]
    ELSE [c EXCEPT !.iteration = 0, !.k = @ + 1]

\* the scenarios files: distinct names, in file order
RECURSIVE Distinct(_)
Distinct(q) ==
    \/ q = << >>
    \/ /\ \A j \in 2..Len(q) : q[j].name # q[1].name
       /\ Distinct(Tail(q))
ScenariosConfigs ==
    UNION { {q \in [1..n -> [name : CliNames, repeat : 1..MaxRepeat]] : Distinct(q)} :
            n \in 1..MaxScenarios }

InitCli ==
    /\ IdleHost
    /\ RpcIdle

\* execute_scenarios up to the while loop: the filter
ExecuteScenariosCall(loop, filter, scenarios) ==
    /\ cli.pc = "idle"
    /\ LET c == [CliIdle EXCEPT !.loop = loop, !.filter = filter, !.scenarios = scenarios]
       IN  cli' =
             IF filter = None
             THEN [c EXCEPT !.pc = "running", !.filtered_scenarios = scenarios, !.k = 1]
             ELSE IF re_compile(filter[1]) # NoExc
             THEN [c EXCEPT !.pc = "raised", !.exc = "ValueError"]
             ELSE LET f == FilterScenarios(filter[1], scenarios)
                  IN  IF f = << >> THEN [c EXCEPT !.pc = "returned"]
                      ELSE [c EXCEPT !.pc = "running", !.filtered_scenarios = f, !.k = 1]
    /\ UNCHANGED <<gen, comp, runVars, snapVars, cfgVars, rpcVars, execVars>>

\* one turn of the inner loop: Executor.from_scenarios, then execute_scenario,
\* which returns or raises
ExecuteIteration(returns) ==
    /\ cli.pc = "running"
    /\ cli.k <= Len(cli.filtered_scenarios)
    /\ LET c == [cli EXCEPT !.executors = @ + 1,
                            !.executed = Append(@, [name |-> cli.filtered_scenarios[cli.k].name,
                                                    executor |-> cli.executors + 1])]
       IN  cli' = IF returns THEN Advance(c)
                  ELSE [c EXCEPT !.pc = "raised", !.exc = "execute_scenario"]
    /\ UNCHANGED <<gen, comp, runVars, snapVars, cfgVars, rpcVars, execVars>>

\* the for loop over the scenarios is over: `if not loop: break'
EndOfPass ==
    /\ cli.pc = "running"
    /\ cli.k > Len(cli.filtered_scenarios)
    /\ cli.passes < MaxPasses
    /\ cli' = IF ~cli.loop THEN [cli EXCEPT !.pc = "returned", !.passes = @ + 1]
              ELSE [cli EXCEPT !.k = 1, !.passes = @ + 1]
    /\ UNCHANGED <<gen, comp, runVars, snapVars, cfgVars, rpcVars, execVars>>

NextCli ==
    \/ \E loop \in BOOLEAN, filter \in Filters, scenarios \in ScenariosConfigs :
         ExecuteScenariosCall(loop, filter, scenarios)
    \/ \E returns \in BOOLEAN : ExecuteIteration(returns)
    \/ EndOfPass

SpecCli == InitCli /\ [][NextCli]_vars

\* the command is a sequential program: it takes its next step
SpecCliFair == SpecCli /\ WF_vars(NextCli)

\* ------------------------------------------------- claims: execute-scenarios
\* the names of the selected scenarios, each `repeat' times, in file order
RECURSIVE Copies(_, _)
Copies(x, n) == IF n = 0 THEN << >> ELSE <<x>> \o Copies(x, n - 1)
RECURSIVE OnePass(_)
OnePass(q) ==
    IF q = << >> THEN << >> ELSE Copies(Head(q).name, Head(q).repeat) \o OnePass(Tail(q))
ExecutedNames == [j \in DOMAIN cli.executed |-> cli.executed[j].name]
Selected == cli.filtered_scenarios

\* the executions so far are the passes over the selected scenarios, each
\* scenario `repeat' times in a row, each execution on an Executor of its own
RepeatInOrderPassByPass ==
    LET pass == OnePass(Selected)
        n == Len(cli.executed)
    IN  /\ \A j \in 1..n :
             /\ ExecutedNames[j] = pass[((j - 1) % Len(pass)) + 1]
             /\ cli.executed[j].executor = j
        /\ cli.executors = n
        /\ (cli.pc = "running" /\ n > 0) =>
             /\ cli.passes = (IF cli.k > Len(Selected) THEN n - 1 ELSE n) \div Len(pass)
             /\ ~cli.loop => cli.passes = 0
        /\ (cli.pc = "returned" /\ Selected # << >>) =>
             ~cli.loop /\ ExecutedNames = pass
        /\ (cli.pc = "raised" /\ cli.exc = "execute_scenario") => n > 0

\* C33: execute-scenarios executes each selected scenario exactly `repeat'
\* times consecutively, scenarios in configuration order, each execution on
\* a freshly built Executor; without --loop the command terminates after one
\* pass over the selected scenarios (or with the first execution that fails),
\* and with --loop it starts a new pass after each completed pass and ends
\* only when an execution fails.
C33_RepeatInOrderPassByPass ==
    /\ []RepeatInOrderPassByPass
    /\ (cli.pc = "running" /\ ~cli.loop) ~> (cli.pc \in {"returned", "raised"})

\* with --loop a second pass was begun after a complete first pass of a
\* scenario that is repeated
C33_Witness_SecondPassBegun ==
    /\ cli.loop /\ cli.passes = 1
    /\ \E j \in DOMAIN Selected : Selected[j].repeat > 1
    /\ Len(Selected) > 1
    /\ Len(cli.executed) > Len(OnePass(Selected))

\* the name has a piece that is the pattern's text, or is that text when
\* the pattern is anchored at both ends
Matches(pattern, name) ==
    IF pattern.kind = "anchored" THEN name = pattern.text
    ELSE \E i, j \in 1..Len(name) : SubSeq(name, i, j) = pattern.text

FilterGiven == cli.pc # "idle" /\ cli.filter # None

\* C34: with --filter REGEX, execute-scenarios executes exactly the scenarios
\* whose name matches the regular expression; when no scenario name matches, no
\* scenario is executed and no Executor is built, also when --loop is set; an
\* invalid regular expression is rejected with an error before any scenario
\* is executed.
C34_FilterSelectsMatching ==
    FilterGiven =>
        LET pattern == cli.filter[1]
            matching == {j \in DOMAIN cli.scenarios :
                            Matches(pattern, cli.scenarios[j].name)}
        IN  IF pattern.kind = "invalid"
            THEN cli.pc = "raised" /\ cli.exc = "ValueError"
                 /\ cli.executed = << >> /\ cli.executors = 0
            ELSE /\ \A j \in DOMAIN cli.executed :
                      \E m \in matching : cli.scenarios[m].name = cli.executed[j].name
                 /\ matching = {} =>
                      cli.pc = "returned" /\ cli.executed = << >> /\ cli.executors = 0
                 /\ (cli.pc = "returned" \/ cli.passes > 0) =>
                      \A m \in matching :
                         \E j \in DOMAIN cli.executed :
                            cli.executed[j].name = cli.scenarios[m].name

\* a filter that selects one scenario out of two by a piece of its name
C34_Witness_OneOfTwoExecuted ==
    /\ FilterGiven /\ cli.pc = "returned"
    /\ cli.filter[1].kind = "text"
    /\ Len(cli.scenarios) = 2 /\ Len(Selected) = 1
    /\ Selected[1].name # cli.filter[1].text
    /\ cli.executed # << >>

\* ------------------------------------------------------- payload generator
\* Generator(threads=...): the largest number of worker threads
MaxThreads == 2

\* the members of Fork, in the order of the enum (ForkConfig.order + 1)
Forks == <<"paris", "shanghai", "cancun", "prague", "osaka">>
ForkOrder(fork) == CHOOSE k \in DOMAIN Forks : Forks[k] = fork

\* Network.MAINNET: forks_timestamps
ParisTime == 1663224179
ShanghaiTime == 1681338455
CancunTime == 1710338135
PragueTime == 1746612311
OsakaTime == 1764798551
forks_timestamps ==
    [fork \in {Forks[k] : k \in DOMAIN Forks} |->
        CASE fork = "paris" -> ParisTime
          [] fork = "shanghai" -> ShanghaiTime
          [] fork = "cancun" -> CancunTime
          [] fork = "prague" -> PragueTime
          [] fork = "osaka" -> OsakaTime]

\* forks_timestamps.get(fork, -1)
get_fork_timestamp(fork) ==
    IF fork \in DOMAIN forks_timestamps THEN forks_timestamps[fork] ELSE -1

\* the loop of get_block_fork over forks_timestamps.items(), from item k on
RECURSIVE ClosestFork(_, _, _, _)
ClosestFork(timestamp, k, closest_fork, closest_fork_timestamp) ==
    IF k > Len(Forks) THEN closest_fork
    ELSE LET fork == Forks[k]
             t == forks_timestamps[fork]
         IN  IF /\ timestamp >= t /\ t > closest_fork_timestamp
                /\ ForkOrder(fork) > ForkOrder(closest_fork)
             THEN ClosestFork(timestamp, k + 1, fork, t)
             ELSE ClosestFork(timestamp, k + 1, closest_fork, closest_fork_timestamp)

\* NetworkConfig.get_block_fork(block), block["timestamp"] = timestamp
get_block_fork(timestamp) ==
    ClosestFork(timestamp, 1, "paris", get_fork_timestamp("paris"))

\* Generator.get_payload_version: a version, or ValueError("Unknown fork")
get_payload_version(timestamp) ==
    LET fork == get_block_fork(timestamp)
    IN  CASE fork = "paris" -> [exc |-> NoExc, version |-> 1]
          [] fork = "shanghai" -> [exc |-> NoExc, version |-> 2]
          [] fork = "cancun" -> [exc |-> NoExc, version |-> 3]
          [] fork = "prague" -> [exc |-> NoExc, version |-> 4]
          [] OTHER -> [exc |-> "ValueError", version |-> 0]

\* get_new_payload_request: f"engine_newPayloadV{version}"; the payload
\* carries the block's timestamp
get_new_payload_request(block_number, timestamp) ==
    [id |-> block_number,
     method |-> <<"engine_newPayloadV", get_payload_version(timestamp).version>>,
     timestamp |-> timestamp]

\* get_fcu_request: `version = self.get_payload_version(block)',
\* f"engine_forkchoiceUpdatedV{version}"
get_fcu_request(block_number, timestamp) ==
    [id |-> block_number,
     method |-> <<"engine_forkchoiceUpdatedV", get_payload_version(timestamp).version>>]

\* str(n) and int(s) for a decimal number, digit by digit
DigitTokens == <<"0", "1", "2", "3", "4", "5", "6", "7", "8", "9">>
DigitValue(c) == (CHOOSE k \in DOMAIN DigitTokens : DigitTokens[k] = c) - 1
RECURSIVE Digits(_)
Digits(n) ==
    IF n < 10 THEN <<DigitTokens[n + 1]>>
    ELSE Append(Digits(n \div 10), DigitTokens[(n % 10) + 1])
RECURSIVE ParseInt(_)
ParseInt(d) ==
    IF Len(d) = 1 THEN DigitValue(d[1])
    ELSE 10 * ParseInt(SubSeq(d, 1, Len(d) - 1)) + DigitValue(d[Len(d)])
IsDigits(d) ==
    d # << >> /\ \A k \in DOMAIN d : d[k] \in {DigitTokens[j] : j \in DOMAIN DigitTokens}

\* f"payload_{block_number}.json" and f"payload_{block_number}_fcu.json"
PayloadFileName(block_number) == <<"payload", "_">> \o Digits(block_number) \o <<".", "json">>
FcuFileName(digits) == <<"payload", "_">> \o digits \o <<"_", "fcu", ".", "json">>

\* re.match(r"^payload_\d+\.json$", name)
IsPayloadFile(name) ==
    /\ Len(name) >= 5
    /\ SubSeq(name, 1, 2) = <<"payload", "_">>
    /\ SubSeq(name, Len(name) - 1, Len(name)) = <<".", "json">>
    /\ IsDigits(SubSeq(name, 3, Len(name) - 2))

\* s.split(sep): the pieces of s between the separators
RECURSIVE SplitOn(_, _, _, _)
SplitOn(str, sep, cur, acc) ==
    IF str = << >> THEN Append(acc, cur)
    ELSE IF Head(str) = sep THEN SplitOn(Tail(str), sep, << >>, Append(acc, cur))
    ELSE SplitOn(Tail(str), sep, Append(cur, Head(str)), acc)
split(str, sep) == SplitOn(str, sep, << >>, << >>)

\* name.split("_")[1].split(".")[0]
BlockDigits(name) == split(split(name, "_")[2], ".")[1]

\* the pairs in the order glob yielded the payload files
sorted_AsGlobbed(pairs) == pairs

\* sorted(pairs, key=lambda p: int(...)): insertion sort, stable
RECURSIVE Insert(_, _)
Insert(q, x) ==
    IF q = << >> THEN <<x>>
    ELSE IF ParseInt(BlockDigits(x[1])) < ParseInt(BlockDigits(Head(q)[1]))
    THEN <<x>> \o q
    ELSE <<Head(q)>> \o Insert(Tail(q), x)
RECURSIVE sorted(_)
sorted(pairs) ==
    IF pairs = << >> THEN << >>
    ELSE Insert(sorted(SubSeq(pairs, 1, Len(pairs) - 1)), pairs[Len(pairs)])

\* generate_payload(block_number) on a block of the given timestamp: the two
\* requests are built, then the two files are written
generate_payload(dir, block_number, timestamp) ==
    IF get_payload_version(timestamp).exc # NoExc
    THEN [exc |-> get_payload_version(timestamp).exc, dir |-> dir]
    ELSE LET written ==
                (PayloadFileName(block_number) :>
                     get_new_payload_request(block_number, timestamp))
                @@ (FcuFileName(Digits(block_number)) :>
                        get_fcu_request(block_number, timestamp))
         IN  [exc |-> NoExc, dir |-> written @@ dir]

\* join_payloads_files on the payload files as glob yielded them
join_payloads_files(g, payloads_filepaths) ==
    LET fcu_filepaths == [k \in DOMAIN payloads_filepaths |->
                             FcuFileName(BlockDigits(payloads_filepaths[k]))]
        pairs == sorted([k \in DOMAIN payloads_filepaths |->
                            <<payloads_filepaths[k], fcu_filepaths[k]>>])
        unlinked == {payloads_filepaths[k] : k \in DOMAIN payloads_filepaths}
                    \cup {fcu_filepaths[k] : k \in DOMAIN fcu_filepaths}
    IN  IF \E k \in DOMAIN pairs : pairs[k][2] \notin DOMAIN g.dir
        THEN [g EXCEPT !.pc = "raised", !.exc = "FileNotFoundError"]
        ELSE [g EXCEPT !.pc = "done",
                       !.payloads_jsonl = [k \in DOMAIN pairs |-> g.dir[pairs[k][1]]],
                       !.fcus_jsonl = [k \in DOMAIN pairs |-> g.dir[pairs[k][2]]],
                       !.dir = [n \in (DOMAIN g.dir) \ unlinked |-> g.dir[n]]]

\* block numbers and block timestamps that are tried
Blocks == {9, 10, 11}
Timestamps ==
    UNION {{forks_timestamps[f] - 1, forks_timestamps[f]} : f \in DOMAIN forks_timestamps}

\* the output directory is created with exist_ok=True: it may hold the files
\* an earlier run without joining left, here of one block of the Paris fork
LeftBy(blocks) ==
    IF blocks = {} THEN << >>
    ELSE LET b == CHOOSE x \in blocks : TRUE
         IN  generate_payload(<< >>, b, ParisTime).dir

TasksIn(g, st) == {b \in DOMAIN g.task : g.task[b] = st}

InitGen ==
    /\ IdleHost
    /\ RpcIdle

\* Generator(...).generate_payloads(): the blocks are submitted to the pool
GeneratePayloadsCall(start_block, end_block, join_payloads, threads, before) ==
    /\ gen.pc = "idle"
    /\ gen' = [GenIdle EXCEPT !.pc = "generating", !.start_block = start_block,
                              !.end_block = end_block, !.join_payloads = join_payloads,
                              !.threads = threads, !.before = before,
                              !.dir = LeftBy(before),
                              !.task = [b \in start_block..end_block |-> "pending"]]
    /\ UNCHANGED <<cli, comp, runVars, snapVars, cfgVars, rpcVars, execVars>>

\* a free worker thread takes the oldest queued block
WorkerTakeBlock(b) ==
    /\ gen.pc = "generating"
    /\ b \in TasksIn(gen, "pending")
    /\ \A c \in TasksIn(gen, "pending") : b <= c
    /\ Cardinality(TasksIn(gen, "running")) < gen.threads
    /\ gen' = [gen EXCEPT !.task[b] = "running"]
    /\ UNCHANGED <<cli, comp, runVars, snapVars, cfgVars, rpcVars, execVars>>

\* generate_payload(b) runs to its end in its worker thread
GeneratePayload(b, timestamp) ==
    /\ gen.pc = "generating"
    /\ b \in TasksIn(gen, "running")
    /\ LET r == generate_payload(gen.dir, b, timestamp)
       IN  gen' = [gen EXCEPT !.task[b] = IF r.exc = NoExc THEN "done" ELSE "failed",
                              !.finished = Append(@, b),
                              !.dir = r.dir]
    /\ UNCHANGED <<cli, comp, runVars, snapVars, cfgVars, rpcVars, execVars>>

\* list(executor.map(...)) meets the first result that is an exception: the
\* blocks still queued are cancelled
MapRaises(b) ==
    /\ gen.pc = "generating"
    /\ b \in TasksIn(gen, "failed")
    /\ \A c \in DOMAIN gen.task : c < b => gen.task[c] = "done"
    /\ TasksIn(gen, "pending") # {}
    /\ gen' = [gen EXCEPT !.task = [c \in DOMAIN @ |->
                                       IF @[c] = "pending" THEN "cancelled" ELSE @[c]]]
    /\ UNCHANGED <<cli, comp, runVars, snapVars, cfgVars, rpcVars, execVars>>

\* the with block is left when no block is queued or running; the exception
\* of a block is raised, else the files are joined if join_payloads
PoolExit ==
    /\ gen.pc = "generating"
    /\ TasksIn(gen, "pending") \cup TasksIn(gen, "running") = {}
    /\ gen' = IF TasksIn(gen, "failed") # {}
              THEN [gen EXCEPT !.pc = "raised", !.exc = "ValueError"]
              ELSE [gen EXCEPT !.pc = IF gen.join_payloads THEN "joining" ELSE "done"]
    /\ UNCHANGED <<cli, comp, runVars, snapVars, cfgVars, rpcVars, execVars>>

\* join_payloads_files; glob yields the payload files in any order
JoinPayloadsFiles ==
    /\ gen.pc = "joining"
    /\ LET names == {n \in DOMAIN gen.dir : IsPayloadFile(n)}
       IN  \E globbed \in [1..Cardinality(names) -> names] :
              /\ \A j, k \in DOMAIN globbed : j # k => globbed[j] # globbed[k]
              /\ gen' = join_payloads_files(gen, globbed)
    /\ UNCHANGED <<cli, comp, runVars, snapVars, cfgVars, rpcVars, execVars>>

NextGen ==
    \/ \E start_block, end_block \in Blocks, join_payloads \in BOOLEAN,
          threads \in 1..MaxThreads, before \in {{}} \cup {{b} : b \in Blocks} :
         GeneratePayloadsCall(start_block, end_block, join_payloads, threads, before)
    \/ \E b \in Blocks : WorkerTakeBlock(b)
    \/ \E b \in Blocks, timestamp \in Timestamps : GeneratePayload(b, timestamp)
    \/ \E b \in Blocks : MapRaises(b)
    \/ PoolExit
    \/ JoinPayloadsFiles

SpecGen == InitGen /\ [][NextGen]_vars

\* ------------------------------------------------- claims: payload generator
\* the latest fork whose activation timestamp is <= the block's timestamp
Activated(timestamp) == {f \in DOMAIN forks_timestamps : forks_timestamps[f] <= timestamp}
ActiveFork(timestamp) ==
    CHOOSE f \in Activated(timestamp) :
        \A g \in Activated(timestamp) : forks_timestamps[g] <= forks_timestamps[f]

\* Paris 1/1, Shanghai 2/2, Cancun 3/3, Prague 4/3
MethodsOfFork ==
    [f \in {"paris", "shanghai", "cancun", "prague"} |->
        CASE f = "paris" -> [newPayload |-> 1, forkchoiceUpdated |-> 1]
          [] f = "shanghai" -> [newPayload |-> 2, forkchoiceUpdated |-> 2]
          [] f = "cancun" -> [newPayload |-> 3, forkchoiceUpdated |-> 3]
          [] f = "prague" -> [newPayload |-> 4, forkchoiceUpdated |-> 3]]

\* the blocks whose two request files are in the output directory
BlocksInDir ==
    {b \in Blocks : PayloadFileName(b) \in DOMAIN gen.dir
                    /\ FcuFileName(Digits(b)) \in DOMAIN gen.dir}

\* C31 as stated: for every block, the generated requests use method
\* engine_newPayloadV{v} with v in 1..4 and engine_forkchoiceUpdatedV{w} with
\* w in 1..3, where v and w are those of the fork active at the block's
\* timestamp: Paris 1/1, Shanghai 2/2, Cancun 3/3, Prague 4/3.
C31_MethodVersionsOfActiveFork ==
    \A b \in BlocksInDir :
        LET payload == gen.dir[PayloadFileName(b)]
            fcu == gen.dir[FcuFileName(Digits(b))]
        IN  /\ \E v \in 1..4 : payload.method = <<"engine_newPayloadV", v>>
            /\ \E w \in 1..3 : fcu.method = <<"engine_forkchoiceUpdatedV", w>>
            /\ (Activated(payload.timestamp) # {}
                /\ ActiveFork(payload.timestamp) \in DOMAIN MethodsOfFork) =>
                 LET m == MethodsOfFork[ActiveFork(payload.timestamp)]
                 IN  /\ payload.method = <<"engine_newPayloadV", m.newPayload>>
                     /\ fcu.method = <<"engine_forkchoiceUpdatedV", m.forkchoiceUpdated>>

\* generate_payloads has returned after joining the files
Joined == gen.pc = "done" /\ gen.join_payloads
LineBlocks(lines) == {lines[k].id : k \in DOMAIN lines}

\* the two files have the same number of lines, the N-th lines are of the
\* same block, and the lines are in ascending order of block number
LinesPairedAndAscending ==
    /\ Len(gen.payloads_jsonl) = Len(gen.fcus_jsonl)
    /\ \A k \in DOMAIN gen.payloads_jsonl :
          /\ gen.payloads_jsonl[k].id = gen.fcus_jsonl[k].id
          /\ gen.payloads_jsonl[k].method[1] = "engine_newPayloadV"
          /\ gen.fcus_jsonl[k].method[1] = "engine_forkchoiceUpdatedV"
    /\ \A j, k \in DOMAIN gen.payloads_jsonl :
          j < k => gen.payloads_jsonl[j].id < gen.payloads_jsonl[k].id

\* C32 as stated: after generate_payloads with joining enabled, whatever
\* order the worker threads finish the blocks in, payloads.jsonl and fcus.jsonl
\* have the same number of lines, the N-th line of each derives from the same
\* block, and the lines are in ascending block-number order covering every
\* block of [start_block, end_block] exactly once.
C32_JoinedLinesCoverRange ==
    Joined =>
        /\ LinesPairedAndAscending
        /\ LineBlocks(gen.payloads_jsonl) = gen.start_block..gen.end_block

\* C32, amended: ... in ascending block-number order covering every block of
\* [start_block, end_block] exactly once, and besides them every block whose
\* payload_<n>.json file was in the output directory before the run.
C32_JoinedLinesCoverRangeAndFilesFound ==
    Joined =>
        /\ LinesPairedAndAscending
        /\ LineBlocks(gen.payloads_jsonl) =
             (gen.start_block..gen.end_block) \cup gen.before

\* the threads finished the blocks in another order than that of their
\* numbers, and a block outside the requested range is among the joined lines
C32_Witness_JoinedWithFilesFound ==
    /\ Joined
    /\ gen.threads >= 2
    /\ gen.before # {}
    /\ Len(gen.finished) >= 2
    /\ gen.finished[1] > gen.finished[2]
    /\ \E k \in DOMAIN gen.payloads_jsonl :
          gen.payloads_jsonl[k].id \notin gen.start_block..gen.end_block

==============================================================================
